---- MODULE Spec2Model ----
(***************************************************************************)
(* A model of the vapi-go-library: the Redis event bus and its handler     *)
(* registry, the webhook receiver and call processor, transcript           *)
(* extraction, chat request validation, the streaming chat reader and its  *)
(* caller, the client operations, the Library lifecycle and the Event      *)
(* encoding.  Each subsystem has its own specification over its own        *)
(* variables; the other variables stay idle.                               *)
(***************************************************************************)
EXTENDS Integers, Sequences, FiniteSets, TLC

VARIABLES
    \* ---- transcript extraction (pkg/voice/client.go)
    xtCall,        \* the Call record handed to ExtractTranscript
    xtResult,      \* the []Message it returned
    xtPc,          \* "ready" before the call, "done" after
    \* ---- chat request validation (pkg/chat/client.go, builders)
    chReq,         \* the CreateChatRequest under test
    chOp,          \* the operation that ran last ("none" before any)
    chErr,         \* the error it returned ("" is nil)
    chHttp,        \* HTTP requests sent by the operation (CreateChat or the stream reader)
    \* ---- webhook receiver and call processor (pkg/voice/webhook.go)
    whCfg,         \* the WebhookServer / CallProcessor wiring
    whReq,         \* the last request or direct call and its environment
    whRes,         \* what the last request produced
    whCount,       \* requests served so far (0 or 1: each run serves the one request)
    \* ---- Redis event bus (pkg/events)
    handlers,      \* r.handlers: event type -> list of handlers
    listeners,     \* one record per goroutine started by Subscribe
    inflight,      \* handler goroutines started and not yet run
    calls,         \* Handle invocations: handler -> event -> count
    cancelled,     \* r.ctx is cancelled
    closed,        \* r.client is closed
    pubs,          \* ghost: successful Publish calls per event
    early,         \* ghost: per type, a Publish was made before the setup below was in place
    \* ---- streaming chat (pkg/chat/client.go CreateStreamingChat)
    stPc,          \* position of the reader goroutine
    skipped,       \* ghost: the loop has passed over a line without emitting
    stPending,     \* the parsed response waiting in the select
    responseChan,  \* buffered channel of StreamingChatResponse
    errorChan,     \* buffered channel of error
    respClosed,    \* responseChan is closed
    errClosed,     \* errorChan is closed
    ctxDone,       \* the caller's context is cancelled
    stBuf,         \* lines the scanner still holds once the context is cancelled
    received,      \* ghost: what the consumer took from responseChan
    errsSent,      \* ghost: errors ever sent on errorChan
    served,        \* ghost: well-formed data events the scanner returned
    apiCall,       \* a client operation with the answers of the remote API to it
    apiRes,        \* what the operation returned, and the HTTP requests it made
    \* ---- the caller's loop over the streaming channels (chat README, chat_example.go)
    consumer,      \* where the caller's select loop stands or how it returned
    \* ---- Library lifecycle (vapi.go)
    running,       \* l.running
    server,        \* w.server of the webhook server and what became of its ListenAndServe
    libPc,         \* per caller: position inside Library.Start or Library.Stop
    libOp,         \* per caller: the call it is in or made last
    libRet,        \* per caller: what its last completed call returned
    libCalls,      \* calls begun so far
    started,       \* ghost: Start calls that returned nil since the last Stop that returned nil
    \* ---- accesses to r.handlers (examples/test_library.go)
    access,        \* the registry accesses in progress
    \* ---- AttachToolToAssistant against one remote assistant (pkg/voice/client.go)
    toolIds,       \* model.toolIds of the assistant at the remote API
    atPc,          \* per caller: position inside AttachToolToAssistant
    atTool,        \* per caller: the tool id of its call
    atSeen,        \* per caller: the toolIds its GET returned
    atRet,         \* per caller: what its last completed call returned
    atOk,          \* ghost: ids present at first or attached by a call that returned nil
    patches        \* PATCH requests sent so far

xtVars == <<xtCall, xtResult, xtPc>>
chVars == <<chReq, chOp, chErr, chHttp>>
whVars == <<whCfg, whReq, whRes, whCount>>
busVars == <<handlers, listeners, inflight, calls, cancelled, closed, pubs, early>>
stVars == <<stPc, skipped, stPending, responseChan, errorChan, respClosed,
            errClosed, ctxDone, stBuf, received, errsSent, served>>
apiVars == <<apiCall, apiRes>>
conVars == <<consumer>>
libVars == <<running, server, libPc, libOp, libRet, libCalls, started>>
accVars == <<access>>
atVars == <<toolIds, atPc, atTool, atSeen, atRet, atOk, patches>>
vars == <<xtVars, chVars, whVars, busVars, stVars, apiVars, conVars, libVars, accVars, atVars>>

(***************************************************************************)
(* Go strings are sequences of characters; the operators below are the     *)
(* functions of package strings that the code calls.                       *)
(***************************************************************************)
IsSpace(c) == c \in {" ", "\t", "\n", "\r"}

RECURSIVE TrimLeft(_)
TrimLeft(s) == IF s # <<>> /\ IsSpace(Head(s)) THEN TrimLeft(Tail(s)) ELSE s

RECURSIVE TrimRight(_)
TrimRight(s) ==
    IF s # <<>> /\ IsSpace(s[Len(s)]) THEN TrimRight(SubSeq(s, 1, Len(s) - 1)) ELSE s

TrimSpace(s) == TrimRight(TrimLeft(s))

HasPrefix(s, p) == Len(s) >= Len(p) /\ SubSeq(s, 1, Len(p)) = p

TrimPrefix(s, p) == IF HasPrefix(s, p) THEN SubSeq(s, Len(p) + 1, Len(s)) ELSE s

Contains(s, sub) ==
    \E i \in 1..(Len(s) - Len(sub) + 1) : SubSeq(s, i, i + Len(sub) - 1) = sub

\* index of the first occurrence of character c in s, 0 when there is none
IndexOf(s, c) ==
    IF \E i \in 1..Len(s) : s[i] = c
    THEN CHOOSE i \in 1..Len(s) : s[i] = c /\ \A j \in 1..(i - 1) : s[j] # c
    ELSE 0

RECURSIVE Split(_, _)
Split(s, c) ==
    LET i == IndexOf(s, c)
    IN  IF i = 0 THEN <<s>>
        ELSE <<SubSeq(s, 1, i - 1)>> \o Split(SubSeq(s, i + 1, Len(s)), c)

\* strings.SplitN(s, c, 2)
SplitN2(s, c) ==
    LET i == IndexOf(s, c)
    IN  IF i = 0 THEN <<s>> ELSE <<SubSeq(s, 1, i - 1), SubSeq(s, i + 1, Len(s))>>

sTranscript == <<"T", "r", "a", "n", "s", "c", "r", "i", "p", "t">>
sAI == <<"A", "I">>
sBOT == <<"B", "O", "T">>
sASSISTANT == <<"A", "S", "S", "I", "S", "T", "A", "N", "T">>
sUser == <<"U", "s", "e", "r">>
sUSER == <<"U", "S", "E", "R">>
sCLIENT == <<"C", "L", "I", "E", "N", "T">>
NL == <<"\n">>

(***************************************************************************)
(* parseTranscriptContent: the line loop keeps (transcript, currentRole,   *)
(* currentText); ParseLine is one iteration of it.                         *)
(***************************************************************************)
FlushTurn(st) ==
    IF st.currentRole # "" /\ st.currentText # <<>>
    THEN Append(st.transcript,
                [role |-> st.currentRole, text |-> TrimSpace(st.currentText)])
    ELSE st.transcript

\* the text after the speaker indicator
AfterSpeaker(line) ==
    LET parts == SplitN2(line, " ")
    IN  IF Len(parts) > 1 THEN TrimSpace(parts[2]) ELSE <<>>

\* a parser that also takes the capitalised "Assistant" for a speaker indicator
ParseLine_TitleCase(st, raw) ==
    LET line == TrimSpace(raw)
    IN  IF line = <<>> THEN st
        ELSE IF HasPrefix(line, sAI) \/ HasPrefix(line, sBOT) \/ HasPrefix(line, sASSISTANT)
                \/ HasPrefix(line, <<"A", "s", "s", "i", "s", "t", "a", "n", "t">>)
        THEN [transcript |-> FlushTurn(st), currentRole |-> "assistant",
              currentText |-> AfterSpeaker(line)]
        ELSE IF HasPrefix(line, sUser) \/ HasPrefix(line, sUSER) \/ HasPrefix(line, sCLIENT)
        THEN [transcript |-> FlushTurn(st), currentRole |-> "user",
              currentText |-> AfterSpeaker(line)]
        ELSE IF st.currentRole # ""
        THEN [st EXCEPT !.currentText =
                 IF st.currentText # <<>> THEN st.currentText \o <<" ">> \o line ELSE line]
        ELSE st

ParseLine(st, raw) ==
    LET line == TrimSpace(raw)
    IN  IF line = <<>> THEN st
        ELSE IF HasPrefix(line, sAI) \/ HasPrefix(line, sBOT) \/ HasPrefix(line, sASSISTANT)
        THEN [transcript |-> FlushTurn(st), currentRole |-> "assistant",
              currentText |-> AfterSpeaker(line)]
        ELSE IF HasPrefix(line, sUser) \/ HasPrefix(line, sUSER) \/ HasPrefix(line, sCLIENT)
        THEN [transcript |-> FlushTurn(st), currentRole |-> "user",
              currentText |-> AfterSpeaker(line)]
        ELSE IF st.currentRole # ""
        THEN [st EXCEPT !.currentText =
                 IF st.currentText # <<>> THEN st.currentText \o <<" ">> \o line ELSE line]
        ELSE st

RECURSIVE ParseLines(_, _, _)
ParseLines(st, lines, i) ==
    IF i > Len(lines) THEN st ELSE ParseLines(ParseLine(st, lines[i]), lines, i + 1)

parseTranscriptContent(content) ==
    IF content = <<>> THEN <<>>
    ELSE LET lines == Split(TrimSpace(content), "\n")
             startIdx == IF Len(lines) > 0 /\ Contains(lines[1], sTranscript) THEN 2 ELSE 1
             st0 == [transcript |-> <<>>, currentRole |-> "", currentText |-> <<>>]
         IN  FlushTurn(ParseLines(st0, lines, startIdx))

(***************************************************************************)
(* ExtractTranscript.  A Call carries Analysis (a pointer, so it may be    *)
(* absent), Transcript (interface{}: nil, a string, a []Message, or any    *)
(* other dynamic type), Messages, Conversation and Artifacts.              *)
(***************************************************************************)
HasMarkers(content) ==
    Contains(content, sTranscript) \/ Contains(content, sAI) \/ Contains(content, sUser)

\* the loop over call.Artifacts: the first artifact that offers anything returns
RECURSIVE ArtifactLoop(_, _)
ArtifactLoop(arts, i) ==
    IF i > Len(arts) THEN <<>>
    ELSE IF Len(arts[i].transcript) > 0 THEN arts[i].transcript
    ELSE IF arts[i].content # <<>> /\ HasMarkers(arts[i].content)
    THEN parseTranscriptContent(arts[i].content)
    ELSE ArtifactLoop(arts, i + 1)

\* a plausible slip: Conversation consulted before Messages
ExtractTranscript_ConvFirst(call) ==
    IF call.analysis.present /\ Len(call.analysis.transcript) > 0
    THEN call.analysis.transcript
    ELSE IF call.transcript.kind = "string" /\ call.transcript.str # <<>>
    THEN parseTranscriptContent(call.transcript.str)
    ELSE IF call.transcript.kind = "messages" /\ Len(call.transcript.msgs) > 0
    THEN call.transcript.msgs
    ELSE IF Len(call.conversation) > 0 THEN call.conversation
    ELSE IF Len(call.messages) > 0 THEN call.messages
    ELSE ArtifactLoop(call.artifacts, 1)

ExtractTranscript(call) ==
    IF call.analysis.present /\ Len(call.analysis.transcript) > 0
    THEN call.analysis.transcript
    ELSE IF call.transcript.kind = "string" /\ call.transcript.str # <<>>
    THEN parseTranscriptContent(call.transcript.str)
    ELSE IF call.transcript.kind = "messages" /\ Len(call.transcript.msgs) > 0
    THEN call.transcript.msgs
    ELSE IF Len(call.messages) > 0 THEN call.messages
    ELSE IF Len(call.conversation) > 0 THEN call.conversation
    ELSE ArtifactLoop(call.artifacts, 1)

\* ---- the Call records the transcript specification draws from
MaxArtifacts == 2

Msg(role, text) == [role |-> role, text |-> text]
mAnalysis == <<Msg("assistant", <<"a", "n">>), Msg("user", <<"a", "2">>)>>
mTop == <<Msg("user", <<"t", "o", "p">>)>>
mMessages == <<Msg("assistant", <<"m", "s", "g">>)>>
mConversation == <<Msg("user", <<"c", "n", "v">>)>>
mArtifactA == <<Msg("assistant", <<"x", "a">>)>>
mArtifactB == <<Msg("user", <<"x", "b">>)>>

\* "AI: hi\nUser: yo"
txtTurns == sAI \o <<":", " ", "h", "i">> \o NL \o sUser \o <<":", " ", "y", "o">>
\* "hello": no speaker line
txtPlain == <<"h", "e", "l", "l", "o">>
\* "User: ok"
txtUser == sUser \o <<":", " ", "o", "k">>
\* "AI: yes"
txtAI == sAI \o <<":", " ", "y", "e", "s">>
\* "MAIL": holds the letters AI and no speaker line
txtMail == <<"M", "A", "I", "L">>

AnalysisOpts ==
    { [present |-> FALSE, transcript |-> <<>>],
      [present |-> TRUE, transcript |-> <<>>],
      [present |-> TRUE, transcript |-> mAnalysis] }

TranscriptOpts ==
    { [kind |-> "nil", str |-> <<>>, msgs |-> <<>>],
      [kind |-> "string", str |-> <<>>, msgs |-> <<>>],
      [kind |-> "string", str |-> txtTurns, msgs |-> <<>>],
      [kind |-> "string", str |-> txtPlain, msgs |-> <<>>],
      [kind |-> "messages", str |-> <<>>, msgs |-> <<>>],
      [kind |-> "messages", str |-> <<>>, msgs |-> mTop],
      [kind |-> "other", str |-> <<>>, msgs |-> <<>>] }

ArtifactOpts ==
    { [transcript |-> <<>>, content |-> <<>>],
      [transcript |-> mArtifactA, content |-> <<>>],
      [transcript |-> mArtifactB, content |-> txtAI],
      [transcript |-> <<>>, content |-> txtUser],
      [transcript |-> <<>>, content |-> txtPlain],
      [transcript |-> <<>>, content |-> txtMail] }

ArtifactLists == UNION { [1..n -> ArtifactOpts] : n \in 0..MaxArtifacts }

Calls ==
    [ analysis : AnalysisOpts, transcript : TranscriptOpts,
      messages : {<<>>, mMessages}, conversation : {<<>>, mConversation},
      artifacts : ArtifactLists, duration : {42}, status : {"ended", "failed"} ]

IdleXt == xtCall = [kind |-> "none"] /\ xtResult = <<>> /\ xtPc = "idle"

InitXt == xtCall \in Calls /\ xtResult = <<>> /\ xtPc = "ready"

\* v.client.ExtractTranscript(call)
XtExtract ==
    /\ xtPc = "ready"
    /\ xtResult' = ExtractTranscript(xtCall)
    /\ xtPc' = "done"
    /\ UNCHANGED xtCall
    /\ UNCHANGED <<chVars, whVars, busVars, stVars, apiVars, conVars, libVars, accVars, atVars>>

(***************************************************************************)
(* Raw transcript texts given to parseTranscriptContent: up to MaxLines    *)
(* lines, each taken from a vocabulary of banner, speaker, lower-case and  *)
(* continuation lines, joined by newlines.                                 *)
(***************************************************************************)
MaxLines == 3

lBanner == <<"T", "r", "a", "n", "s", "c", "r", "i", "p", "t">>
lAI == <<"A", "I", ":", " ", "H", "e", "l", "l", "o", " ", "t", "h", "e", "r", "e">>
lUser == <<"U", "s", "e", "r", ":", " ", "H", "i">>
lBOT == <<"B", "O", "T", ":", " ", "b">>
lASSISTANT == <<"A", "S", "S", "I", "S", "T", "A", "N", "T", ":", " ", "a">>
lUSER == <<"U", "S", "E", "R", ":", " ", "U">>
lCLIENT == <<"C", "L", "I", "E", "N", "T", ":", " ", "C">>
lai == <<"a", "i", ":", " ", "l", "o">>
lAssistant == <<"A", "s", "s", "i", "s", "t", "a", "n", "t", ":", " ", "x">>
lbot == <<"b", "o", "t", ":", " ", "y">>
luser == <<"u", "s", "e", "r", ":", " ", "u">>
lclient == <<"c", "l", "i", "e", "n", "t", ":", " ", "c">>
lMore == <<"a", "n", "d", " ", "m", "o", "r", "e">>
lBlank == <<" ">>
lUserBanner == <<"U", "s", "e", "r", ":", " ", "T", "r", "a", "n", "s", "c", "r", "i", "p", "t", " ", "p", "l", "e", "a", "s", "e">>
lAIBare == <<"A", "I", ":">>

LineVocabulary ==
    { lBanner, lAI, lUser, lBOT, lASSISTANT, lUSER, lCLIENT, lai, lAssistant, lbot, luser, lclient, lMore, lBlank, lUserBanner, lAIBare }

RECURSIVE JoinLines(_)
JoinLines(ls) ==
    IF ls = <<>> THEN <<>>
    ELSE IF Len(ls) = 1 THEN ls[1]
    ELSE ls[1] \o NL \o JoinLines(Tail(ls))

RawTexts == { JoinLines(ls) : ls \in UNION { [1..n -> LineVocabulary] : n \in 0..MaxLines } }

InitParse ==
    /\ xtCall \in { [kind |-> "text", content |-> c] : c \in RawTexts }
    /\ xtResult = <<>> /\ xtPc = "ready"

\* c.parseTranscriptContent(content)
XtParse ==
    /\ xtPc = "ready"
    /\ xtResult' = parseTranscriptContent(xtCall.content)
    /\ xtPc' = "done"
    /\ UNCHANGED xtCall
    /\ UNCHANGED <<chVars, whVars, busVars, stVars, apiVars, conVars, libVars, accVars, atVars>>

(***************************************************************************)
(* Chat requests.  Pointer fields are modelled by whether they are set;    *)
(* Input is an interface{} and is modelled by the kind of value it holds.  *)
(* A name is a sequence of characters; Go's len() counts its UTF-8 bytes.  *)
(***************************************************************************)
NameLimit == 40

AsciiChar == "a"
\* U+00F1, two bytes in UTF-8
WideChar == "n~"

Utf8Len(c) == IF c = AsciiChar THEN 1 ELSE 2

RECURSIVE GoLen(_)
GoLen(s) == IF s = <<>> THEN 0 ELSE Utf8Len(Head(s)) + GoLen(Tail(s))

Rep(c, n) == [i \in 1..n |-> c]

Names ==
    { Rep(AsciiChar, n) : n \in {0, NameLimit - 1, NameLimit, NameLimit + 1} }
    \cup { Rep(WideChar, n) : n \in {NameLimit \div 2, NameLimit \div 2 + 1, NameLimit} }

NameOpts == { [set |-> FALSE, val |-> <<>>] } \cup { [set |-> TRUE, val |-> n] : n \in Names }

\* nil; ""; a text; []ChatMessage{}; a message list; a value json.Marshal rejects
InputKinds == {"nil", "emptyString", "text", "emptyList", "messages", "unmarshalable"}

NilRequest ==
    [isNil |-> TRUE, input |-> "nil", assistantId |-> FALSE, assistant |-> FALSE,
     sessionId |-> FALSE, previousChatId |-> FALSE, name |-> [set |-> FALSE, val |-> <<>>]]

Requests ==
    {NilRequest} \cup
    [ isNil : {FALSE}, input : InputKinds, assistantId : BOOLEAN, assistant : BOOLEAN,
      sessionId : BOOLEAN, previousChatId : BOOLEAN, name : NameOpts ]

ErrNilRequest == "request cannot be nil"
ErrInput == "input is required"
ErrNoTarget == "at least one of assistantId, assistant, sessionId, or previousChatId is required"
ErrExclusive == "sessionId and previousChatId are mutually exclusive"
ErrName == "name must be 40 characters or less"

\* a validator that lets exactly one identifying field through
ValidateRequest_ExactlyOne(req) ==
    IF req.isNil THEN ErrNilRequest
    ELSE IF req.input = "nil" THEN ErrInput
    ELSE IF ~req.assistantId /\ ~req.assistant /\ ~req.sessionId /\ ~req.previousChatId
    THEN ErrNoTarget
    ELSE IF Cardinality({ f \in {"assistantId", "assistant", "sessionId", "previousChatId"} : req[f] }) > 1
    THEN ErrExclusive
    ELSE IF req.name.set /\ GoLen(req.name.val) > NameLimit THEN ErrName
    ELSE ""

\* Client.ValidateRequest
ValidateRequest(req) ==
    IF req.isNil THEN ErrNilRequest
    ELSE IF req.input = "nil" THEN ErrInput
    ELSE IF ~req.assistantId /\ ~req.assistant /\ ~req.sessionId /\ ~req.previousChatId
    THEN ErrNoTarget
    ELSE IF req.sessionId /\ req.previousChatId THEN ErrExclusive
    ELSE IF req.name.set /\ GoLen(req.name.val) > NameLimit THEN ErrName
    ELSE ""

\* RequestBuilder.Validate, on the builder's request (never nil)
BuilderValidate(req) ==
    IF req.input = "nil" THEN ErrInput
    ELSE IF ~req.assistantId /\ ~req.assistant /\ ~req.sessionId /\ ~req.previousChatId
    THEN ErrNoTarget
    ELSE IF req.sessionId /\ req.previousChatId THEN ErrExclusive
    ELSE IF req.name.set /\ GoLen(req.name.val) > NameLimit THEN ErrName
    ELSE ""

\* inline checks that take an empty string or list for a missing input
InlineChecks_EmptyIsMissing(req) ==
    IF req.isNil THEN ErrNilRequest
    ELSE IF req.input \in {"nil", "emptyString", "emptyList"} THEN ErrInput
    ELSE IF ~req.assistantId /\ ~req.assistant /\ ~req.sessionId /\ ~req.previousChatId
    THEN ErrNoTarget
    ELSE IF req.sessionId /\ req.previousChatId THEN ErrExclusive
    ELSE ""

\* the checks CreateChat and CreateStreamingChat make themselves before json.Marshal
InlineChecks(req) ==
    IF req.isNil THEN ErrNilRequest
    ELSE IF req.input = "nil" THEN ErrInput
    ELSE IF ~req.assistantId /\ ~req.assistant /\ ~req.sessionId /\ ~req.previousChatId
    THEN ErrNoTarget
    ELSE IF req.sessionId /\ req.previousChatId THEN ErrExclusive
    ELSE ""

\* json.Marshal(req) fails on a value it cannot encode
MarshalFails(req) == req.input = "unmarshalable"

\* what c.httpClient.Do and the reading of the response can give
StatusCodes == {200, 204, 302, 404, 500}
HttpOutcomes ==
    { [kind |-> "transport", status |-> 0, body |-> "none"],
      [kind |-> "readError", status |-> 200, body |-> "none"] }
    \cup [ kind : {"response"}, status : StatusCodes, body : {"json", "garbage"} ]

\* a CreateChat that takes every status outside 200-299 for an API error
CreateChat_Not2xx(req, out) ==
    IF InlineChecks(req) # "" THEN [err |-> InlineChecks(req), http |-> 0, body |-> "none", result |-> FALSE]
    ELSE IF MarshalFails(req) THEN [err |-> "failed to marshal request", http |-> 0, body |-> "none", result |-> FALSE]
    ELSE IF out.kind = "transport" THEN [err |-> "failed to send request", http |-> 1, body |-> "none", result |-> FALSE]
    ELSE IF out.kind = "readError" THEN [err |-> "failed to read response body", http |-> 1, body |-> "none", result |-> FALSE]
    ELSE IF out.status < 200 \/ out.status > 299 THEN [err |-> "API error", http |-> 1, body |-> "full", result |-> FALSE]
    ELSE IF out.body # "json" THEN [err |-> "failed to parse response", http |-> 1, body |-> "none", result |-> FALSE]
    ELSE [err |-> "", http |-> 1, body |-> "none", result |-> TRUE]

\* CreateChat: the error returned, the HTTP requests sent, the response body the
\* error message carries ("none", or "full": io.ReadAll succeeded before the
\* status check), and whether a ChatResponse is returned
CreateChat(req, out) ==
    IF InlineChecks(req) # "" THEN [err |-> InlineChecks(req), http |-> 0, body |-> "none", result |-> FALSE]
    ELSE IF MarshalFails(req) THEN [err |-> "failed to marshal request", http |-> 0, body |-> "none", result |-> FALSE]
    ELSE IF out.kind = "transport" THEN [err |-> "failed to send request", http |-> 1, body |-> "none", result |-> FALSE]
    ELSE IF out.kind = "readError" THEN [err |-> "failed to read response body", http |-> 1, body |-> "none", result |-> FALSE]
    ELSE IF out.status >= 400 THEN [err |-> "API error", http |-> 1, body |-> "full", result |-> FALSE]
    ELSE IF out.body # "json" THEN [err |-> "failed to parse response", http |-> 1, body |-> "none", result |-> FALSE]
    ELSE [err |-> "", http |-> 1, body |-> "none", result |-> TRUE]

IdleCh == chReq = NilRequest /\ chOp = "idle" /\ chErr = "" /\ chHttp = 0

InitCh == chReq \in Requests /\ chOp = "none" /\ chErr = "" /\ chHttp = 0

ChValidateRequest ==
    /\ chOp = "none"
    /\ chOp' = "ValidateRequest"
    /\ chErr' = ValidateRequest(chReq)
    /\ UNCHANGED <<chReq, chHttp>>
    /\ UNCHANGED <<xtVars, whVars, busVars, stVars, apiVars, conVars, libVars, accVars, atVars>>

ChBuilderValidate ==
    /\ chOp = "none"
    /\ ~chReq.isNil
    /\ chOp' = "BuilderValidate"
    /\ chErr' = BuilderValidate(chReq)
    /\ UNCHANGED <<chReq, chHttp>>
    /\ UNCHANGED <<xtVars, whVars, busVars, stVars, apiVars, conVars, libVars, accVars, atVars>>

ChCreateChat ==
    /\ chOp = "none"
    /\ \E out \in HttpOutcomes :
          LET r == CreateChat(chReq, out)
          IN  chErr' = r.err /\ chHttp' = r.http
    /\ chOp' = "CreateChat"
    /\ UNCHANGED chReq
    /\ UNCHANGED <<xtVars, whVars, busVars, stVars, apiVars, conVars, libVars, accVars, atVars>>

(***************************************************************************)
(* CreateStreamingChat.  The call makes the two channels and starts the    *)
(* reader goroutine; the reader validates, sends the request, then scans   *)
(* the body line by line.  Its deferred calls run last-in first-out:       *)
(* resp.Body.Close(), close(errorChan), close(responseChan).               *)
(***************************************************************************)
ChanCap == 100
ErrChanCap == 1
MaxEvents == 104
MaxBuffered == 2
\* the responses the caller takes before it stops reading
MaxReceives == 3

sDataPrefix == <<"d", "a", "t", "a", ":", " ">>
sDONE == <<"[", "D", "O", "N", "E", "]">>

LineEmpty == <<>>
\* ": ka"
LineComment == <<":", " ", "k", "a">>
\* "data: "
LineKeepAlive == sDataPrefix
\* "data: [DONE]"
LineDoneMarker == sDataPrefix \o sDONE
\* "event: x"
LineEvent == <<"e", "v", "e", "n", "t", ":", " ", "x">>
\* "data:{k}": no space after the colon
LineNoSpace(k) == <<"d", "a", "t", "a", ":", "{", ToString(k), "}">>
\* "data: {k}"
LineData(k) == sDataPrefix \o <<"{", ToString(k), "}">>
\* "data: {k,done}"
LineDataDone(k) == sDataPrefix \o <<"{", ToString(k), ",", "done", "}">>
\* "data: {k": truncated JSON
LineBad(k) == sDataPrefix \o <<"{", ToString(k)>>

LinesAt(k) ==
    { LineEmpty, LineComment, LineKeepAlive, LineDoneMarker, LineEvent,
      LineNoSpace(k), LineBad(k), LineData(k), LineDataDone(k) }

\* json.Unmarshal([]byte(data), &streamResponse)
UnmarshalStream(data) ==
    IF Len(data) = 3 /\ data[1] = "{" /\ data[3] = "}"
    THEN [ok |-> TRUE, val |-> [message |-> data[2], done |-> FALSE]]
    ELSE IF Len(data) = 5 /\ data[1] = "{" /\ data[3] = "," /\ data[4] = "done" /\ data[5] = "}"
    THEN [ok |-> TRUE, val |-> [message |-> data[2], done |-> TRUE]]
    ELSE [ok |-> FALSE, val |-> [message |-> "", done |-> FALSE]]

\* one iteration of the scanner loop on a line: skip it, emit a response, or fail
ProcessLine(line) ==
    LET none == [message |-> "", done |-> FALSE]
    IN  IF line = <<>> \/ HasPrefix(line, <<":">>) THEN [kind |-> "skip", val |-> none]
        ELSE IF HasPrefix(line, sDataPrefix)
        THEN LET data == TrimPrefix(line, sDataPrefix)
             IN  IF data = <<>> \/ data = sDONE THEN [kind |-> "skip", val |-> none]
                 ELSE IF ~UnmarshalStream(data).ok THEN [kind |-> "error", val |-> none]
                 ELSE [kind |-> "emit", val |-> UnmarshalStream(data).val]
        ELSE [kind |-> "skip", val |-> none]

NoResponse == [message |-> "", done |-> FALSE]

IdleSt ==
    /\ stPc = "idle" /\ skipped = FALSE /\ stPending = NoResponse
    /\ responseChan = <<>> /\ errorChan = <<>>
    /\ respClosed = FALSE /\ errClosed = FALSE
    /\ ctxDone = FALSE /\ stBuf = 0
    /\ received = <<>> /\ errsSent = <<>> /\ served = <<>>

\* errorChan <- err; return
SendError(err) ==
    /\ Len(errorChan) < ErrChanCap
    /\ errorChan' = Append(errorChan, err)
    /\ errsSent' = Append(errsSent, err)
    /\ stPc' = "closeErr"

\* CreateStreamingChat: make the channels, start the goroutine, return the channels
StCall ==
    /\ chOp = "none"
    /\ stPc = "idle"
    /\ chOp' = "CreateStreamingChat"
    /\ stPc' = "start"
    /\ UNCHANGED <<chReq, chErr, chHttp, skipped, stPending, responseChan, errorChan,
                   respClosed, errClosed, ctxDone, stBuf, received, errsSent, served>>
    /\ UNCHANGED <<xtVars, whVars, busVars, apiVars, conVars, libVars, accVars, atVars>>

\* the reader's checks and json.Marshal
StValidate ==
    /\ stPc = "start"
    /\ LET err == IF InlineChecks(chReq) # "" THEN InlineChecks(chReq)
                  ELSE IF MarshalFails(chReq) THEN "failed to marshal request"
                  ELSE ""
       IN  IF err # "" THEN SendError(err)
           ELSE stPc' = "do" /\ UNCHANGED <<errorChan, errsSent>>
    /\ UNCHANGED <<chVars, skipped, stPending, responseChan, respClosed, errClosed,
                   ctxDone, stBuf, received, served>>
    /\ UNCHANGED <<xtVars, whVars, busVars, apiVars, conVars, libVars, accVars, atVars>>

\* c.httpClient.Do(httpReq) and the status check
StDo ==
    /\ stPc = "do"
    /\ chHttp' = chHttp + 1
    /\ \E out \in HttpOutcomes :
          /\ out.kind # "readError"
          /\ ctxDone => out.kind = "transport"
          /\ IF out.kind = "transport" THEN SendError("failed to send request")
             ELSE IF out.status >= 400 THEN SendError("API error")
             ELSE stPc' = "scan" /\ UNCHANGED <<errorChan, errsSent>>
    /\ UNCHANGED <<chReq, chOp, chErr, skipped, stPending, responseChan, respClosed,
                   errClosed, ctxDone, stBuf, received, served>>
    /\ UNCHANGED <<xtVars, whVars, busVars, apiVars, conVars, libVars, accVars, atVars>>

\* scanner.Scan() returns a line, and the loop body runs on it up to the select
StScanLine ==
    /\ stPc = "scan"
    /\ ctxDone => stBuf > 0
    /\ \E line \in LinesAt(Len(served) + 1) :
          /\ ProcessLine(line).kind = "emit" => Len(served) < MaxEvents
          /\ skipped' = (skipped \/ ProcessLine(line).kind = "skip")
          /\ served' = IF line = LineData(Len(served) + 1)
                       THEN Append(served, [message |-> ToString(Len(served) + 1), done |-> FALSE])
                       ELSE IF line = LineDataDone(Len(served) + 1)
                       THEN Append(served, [message |-> ToString(Len(served) + 1), done |-> TRUE])
                       ELSE served
          /\ LET r == ProcessLine(line)
             IN  IF r.kind = "skip"
                 THEN UNCHANGED <<stPc, stPending, errorChan, errsSent>>
                 ELSE IF r.kind = "error"
                 THEN SendError("failed to parse streaming response") /\ UNCHANGED stPending
                 ELSE stPc' = "select" /\ stPending' = r.val /\ UNCHANGED <<errorChan, errsSent>>
    /\ stBuf' = IF ctxDone THEN stBuf - 1 ELSE stBuf
    /\ UNCHANGED <<chVars, responseChan, respClosed, errClosed, ctxDone, received>>
    /\ UNCHANGED <<xtVars, whVars, busVars, apiVars, conVars, libVars, accVars, atVars>>

\* scanner.Scan() returns false at the end of the body: scanner.Err() is nil
StScanEOF ==
    /\ stPc = "scan"
    /\ stPc' = "closeErr"
    /\ UNCHANGED <<chVars, skipped, stPending, responseChan, errorChan, respClosed,
                   errClosed, ctxDone, stBuf, received, errsSent, served>>
    /\ UNCHANGED <<xtVars, whVars, busVars, apiVars, conVars, libVars, accVars, atVars>>

\* scanner.Scan() returns false on a read error (a cancelled context, a timeout,
\* a broken connection, a line too long)
StScanError ==
    /\ stPc = "scan"
    /\ SendError("error reading streaming response")
    /\ UNCHANGED <<chVars, skipped, stPending, responseChan, respClosed, errClosed,
                   ctxDone, stBuf, received, served>>
    /\ UNCHANGED <<xtVars, whVars, busVars, apiVars, conVars, libVars, accVars, atVars>>

\* a plausible slip: the Done check after the send left out
StSelectSend_NoDoneCheck ==
    /\ stPc = "select"
    /\ Len(responseChan) < ChanCap
    /\ responseChan' = Append(responseChan, stPending)
    /\ stPc' = "scan"
    /\ stPending' = NoResponse
    /\ UNCHANGED <<chVars, skipped, errorChan, respClosed, errClosed, ctxDone, stBuf,
                   received, errsSent, served>>
    /\ UNCHANGED <<xtVars, whVars, busVars, apiVars, conVars, libVars, accVars, atVars>>

\* select: case responseChan <- &streamResponse
StSelectSend ==
    /\ stPc = "select"
    /\ Len(responseChan) < ChanCap
    /\ responseChan' = Append(responseChan, stPending)
    /\ stPc' = IF stPending.done THEN "closeErr" ELSE "scan"
    /\ stPending' = NoResponse
    /\ UNCHANGED <<chVars, skipped, errorChan, respClosed, errClosed, ctxDone, stBuf,
                   received, errsSent, served>>
    /\ UNCHANGED <<xtVars, whVars, busVars, apiVars, conVars, libVars, accVars, atVars>>

\* a plausible slip: a plain send in place of the select, ctx.Done() seen only
\* once the send has gone through
StSelectCancel_PlainSend ==
    /\ stPc = "select"
    /\ ctxDone
    /\ Len(responseChan) < ChanCap
    /\ stPc' = "closeErr"
    /\ UNCHANGED <<chVars, skipped, stPending, responseChan, errorChan, respClosed,
                   errClosed, ctxDone, stBuf, received, errsSent, served>>
    /\ UNCHANGED <<xtVars, whVars, busVars, apiVars, conVars, libVars, accVars, atVars>>

\* select: case <-ctx.Done()
StSelectCancel ==
    /\ stPc = "select"
    /\ ctxDone
    /\ stPc' = "closeErr"
    /\ UNCHANGED <<chVars, skipped, stPending, responseChan, errorChan, respClosed,
                   errClosed, ctxDone, stBuf, received, errsSent, served>>
    /\ UNCHANGED <<xtVars, whVars, busVars, apiVars, conVars, libVars, accVars, atVars>>

\* deferred close(errorChan)
StCloseErr ==
    /\ stPc = "closeErr"
    /\ errClosed' = TRUE
    /\ stPc' = "closeResp"
    /\ UNCHANGED <<chVars, skipped, stPending, responseChan, errorChan, respClosed,
                   ctxDone, stBuf, received, errsSent, served>>
    /\ UNCHANGED <<xtVars, whVars, busVars, apiVars, conVars, libVars, accVars, atVars>>

\* deferred close(responseChan)
StCloseResp ==
    /\ stPc = "closeResp"
    /\ respClosed' = TRUE
    /\ stPc' = "done"
    /\ UNCHANGED <<chVars, skipped, stPending, responseChan, errorChan, errClosed,
                   ctxDone, stBuf, received, errsSent, served>>
    /\ UNCHANGED <<xtVars, whVars, busVars, apiVars, conVars, libVars, accVars, atVars>>

\* the caller receives from responseChan
ConsumerRecv ==
    /\ stPc # "idle"
    /\ responseChan # <<>>
    /\ Len(received) < MaxReceives
    /\ received' = Append(received, Head(responseChan))
    /\ responseChan' = Tail(responseChan)
    /\ UNCHANGED <<chVars, stPc, skipped, stPending, errorChan, respClosed, errClosed,
                   ctxDone, stBuf, errsSent, served>>
    /\ UNCHANGED <<xtVars, whVars, busVars, apiVars, conVars, libVars, accVars, atVars>>

\* the caller receives from errorChan
ConsumerRecvErr ==
    /\ stPc # "idle"
    /\ errorChan # <<>>
    /\ errorChan' = Tail(errorChan)
    /\ UNCHANGED <<chVars, stPc, skipped, stPending, responseChan, respClosed, errClosed,
                   ctxDone, stBuf, received, errsSent, served>>
    /\ UNCHANGED <<xtVars, whVars, busVars, apiVars, conVars, libVars, accVars, atVars>>

\* the caller's context is cancelled or its deadline passes; the scanner keeps
\* the lines it has already buffered, and nothing more arrives
CtxCancel ==
    /\ stPc # "idle"
    /\ ~ctxDone
    /\ ctxDone' = TRUE
    /\ stBuf' \in 0..MaxBuffered
    /\ UNCHANGED <<chVars, stPc, skipped, stPending, responseChan, errorChan, respClosed,
                   errClosed, received, errsSent, served>>
    /\ UNCHANGED <<xtVars, whVars, busVars, apiVars, conVars, libVars, accVars, atVars>>

ReaderStep ==
    \/ StValidate \/ StDo \/ StScanLine \/ StScanEOF \/ StScanError
    \/ StSelectSend \/ StSelectCancel \/ StCloseErr \/ StCloseResp

(***************************************************************************)
(* Webhook receiver and call processor.  A request body is a JSON document *)
(* given by its shape: what json.Unmarshal into map[string]interface{}     *)
(* and the type assertions of the code can tell apart.                     *)
(***************************************************************************)
EventCallCompleted == "vapi.call.completed"
EventWebhookReceived == "vapi.webhook.received"
EndOfCallReport == "end-of-call-report"

Field(kind, val) == [kind |-> kind, val |-> val]
\* a field of a JSON object: absent, present with a non-string value, or a string
IdOpts == { Field("absent", ""), Field("other", ""), Field("string", "c1") }
AsstOpts == { Field("absent", ""), Field("other", ""), Field("string", "a1") }
TypeOpts ==
    { Field("absent", ""), Field("other", ""), Field("string", EndOfCallReport),
      Field("string", "status-update") }

NoCall == [kind |-> "absent", id |-> Field("absent", ""), assistantId |-> Field("absent", "")]
CallOpts ==
    { NoCall, [NoCall EXCEPT !.kind = "other"] }
    \cup [ kind : {"object"}, id : IdOpts, assistantId : AsstOpts ]

NoMessage == [kind |-> "absent", type |-> Field("absent", ""), call |-> NoCall]
MessageObjects == [ kind : {"object"}, type : TypeOpts, call : CallOpts ]
MessageOpts == { NoMessage, [NoMessage EXCEPT !.kind = "other"] } \cup MessageObjects

\* not JSON at all; the JSON value null; a JSON array; a JSON object
Docs ==
    { [json |-> j, message |-> NoMessage] : j \in {"invalid", "null", "array"} }
    \cup [ json : {"object"}, message : MessageOpts ]

\* the calls the remote API may answer GetCall with
FetchedCalls ==
    { c \in Calls :
        /\ c.analysis.transcript = <<>> /\ c.analysis.present
        /\ c.transcript.kind = "string" /\ c.transcript.str # txtPlain
        /\ c.conversation = <<>> /\ c.messages # <<>> /\ Len(c.artifacts) = 0 }

\* GetCall: the transport, the status check (200 only) and the decoding
GetCallOutcomes ==
    { [ok |-> FALSE, call |-> CHOOSE c \in FetchedCalls : TRUE] }
    \cup [ ok : {TRUE}, call : FetchedCalls ]

NewEvent(eventType, source, data) == [type |-> eventType, source |-> source, data |-> data]

NoResult == [err |-> "", getCalls |-> 0, published |-> <<>>]

\* a plausible slip: the assistantId check left out
ProcessEndOfCallReport_NoAsstCheck(message, procBus, got, pubOk) ==
    IF message.call.kind # "object" THEN [NoResult EXCEPT !.err = "no call data in end-of-call-report"]
    ELSE IF message.call.id.kind # "string"
    THEN [NoResult EXCEPT !.err = "no call ID in end-of-call-report"]
    ELSE IF ~got.ok THEN [NoResult EXCEPT !.err = "failed to get call details", !.getCalls = 1]
    ELSE LET callID == message.call.id.val
             processedCall ==
                 [id |-> "processed_" \o callID, call_id |-> callID,
                  assistant_id |-> message.call.assistantId.val,
                  transcript |-> ExtractTranscript(got.call),
                  duration |-> got.call.duration, status |-> got.call.status]
             event == NewEvent(EventCallCompleted, "vapi-processor", processedCall)
         IN  IF ~procBus THEN [NoResult EXCEPT !.getCalls = 1]
             ELSE [err |-> IF pubOk THEN "" ELSE "failed to publish call-completed event",
                   getCalls |-> 1, published |-> <<event>>]

\* a plausible slip: a failed Publish tried a second time
ProcessEndOfCallReport_Republish(message, procBus, got, pubOk) ==
    IF message.call.kind # "object" THEN [NoResult EXCEPT !.err = "no call data in end-of-call-report"]
    ELSE IF message.call.id.kind # "string"
    THEN [NoResult EXCEPT !.err = "no call ID in end-of-call-report"]
    ELSE IF message.call.assistantId.kind # "string"
    THEN [NoResult EXCEPT !.err = "no assistant ID in end-of-call-report"]
    ELSE IF ~got.ok THEN [NoResult EXCEPT !.err = "failed to get call details", !.getCalls = 1]
    ELSE LET callID == message.call.id.val
             processedCall ==
                 [id |-> "processed_" \o callID, call_id |-> callID,
                  assistant_id |-> message.call.assistantId.val,
                  transcript |-> ExtractTranscript(got.call),
                  duration |-> got.call.duration, status |-> got.call.status]
             event == NewEvent(EventCallCompleted, "vapi-processor", processedCall)
         IN  IF ~procBus THEN [NoResult EXCEPT !.getCalls = 1]
             ELSE [err |-> IF pubOk THEN "" ELSE "failed to publish call-completed event",
                   getCalls |-> 1,
                   published |-> IF pubOk THEN <<event>> ELSE <<event, event>>]

\* CallProcessor.ProcessEndOfCallReport: procBus is p.eventBus != nil, got is what
\* GetCall answers, pubOk whether Publish succeeds
ProcessEndOfCallReport(message, procBus, got, pubOk) ==
    IF message.call.kind # "object" THEN [NoResult EXCEPT !.err = "no call data in end-of-call-report"]
    ELSE IF message.call.id.kind # "string"
    THEN [NoResult EXCEPT !.err = "no call ID in end-of-call-report"]
    ELSE IF message.call.assistantId.kind # "string"
    THEN [NoResult EXCEPT !.err = "no assistant ID in end-of-call-report"]
    ELSE IF ~got.ok THEN [NoResult EXCEPT !.err = "failed to get call details", !.getCalls = 1]
    ELSE LET callID == message.call.id.val
             processedCall ==
                 [id |-> "processed_" \o callID, call_id |-> callID,
                  assistant_id |-> message.call.assistantId.val,
                  transcript |-> ExtractTranscript(got.call),
                  duration |-> got.call.duration, status |-> got.call.status]
             event == NewEvent(EventCallCompleted, "vapi-processor", processedCall)
         IN  IF ~procBus THEN [NoResult EXCEPT !.getCalls = 1]
             ELSE [err |-> IF pubOk THEN "" ELSE "failed to publish call-completed event",
                   getCalls |-> 1, published |-> <<event>>]

\* json.Unmarshal(payload, &webhookData): a body cut short is followed by zero
\* bytes in the buffer and does not parse
UnmarshalFails(payload) == ~payload.intact \/ payload.doc.json \in {"invalid", "array"}

NoProcessing == [err |-> "", procCalls |-> 0, getCalls |-> 0, published |-> <<>>]

\* a plausible slip: the raw envelope published for every message type
processWebhookEvent_AnyType(payload, cfg, got, pubOk) ==
    IF UnmarshalFails(payload) THEN [NoProcessing EXCEPT !.err = "failed to parse webhook payload"]
    ELSE IF payload.doc.json # "object" \/ payload.doc.message.kind # "object" THEN NoProcessing
    ELSE IF cfg.processor /\ payload.doc.message.type = Field("string", EndOfCallReport)
    THEN LET r == ProcessEndOfCallReport(payload.doc.message, cfg.procEventBus, got, pubOk)
         IN  [err |-> r.err, procCalls |-> 1, getCalls |-> r.getCalls, published |-> r.published]
    ELSE IF cfg.eventBus
    THEN [NoProcessing EXCEPT
             !.published = <<NewEvent(EventWebhookReceived, "vapi-webhook", payload.doc)>>,
             !.err = IF pubOk THEN "" ELSE "publish failed"]
    ELSE NoProcessing

\* a receiver that publishes the envelope of a body without a message object
processWebhookEvent_PublishBare(payload, cfg, got, pubOk) ==
    IF UnmarshalFails(payload) THEN [NoProcessing EXCEPT !.err = "failed to parse webhook payload"]
    ELSE IF payload.doc.json # "object" \/ payload.doc.message.kind # "object"
    THEN IF cfg.eventBus
         THEN [NoProcessing EXCEPT
                 !.published = <<NewEvent(EventWebhookReceived, "vapi-webhook", payload.doc)>>,
                 !.err = IF pubOk THEN "" ELSE "publish failed"]
         ELSE NoProcessing
    ELSE IF payload.doc.message.type # Field("string", EndOfCallReport) THEN NoProcessing
    ELSE IF cfg.processor
    THEN LET r == ProcessEndOfCallReport(payload.doc.message, cfg.procEventBus, got, pubOk)
         IN  [err |-> r.err, procCalls |-> 1, getCalls |-> r.getCalls, published |-> r.published]
    ELSE IF cfg.eventBus
    THEN [NoProcessing EXCEPT
             !.published = <<NewEvent(EventWebhookReceived, "vapi-webhook", payload.doc)>>,
             !.err = IF pubOk THEN "" ELSE "publish failed"]
    ELSE NoProcessing

\* WebhookServer.processWebhookEvent
processWebhookEvent(payload, cfg, got, pubOk) ==
    IF UnmarshalFails(payload) THEN [NoProcessing EXCEPT !.err = "failed to parse webhook payload"]
    ELSE IF payload.doc.json # "object" \/ payload.doc.message.kind # "object" THEN NoProcessing
    ELSE IF payload.doc.message.type # Field("string", EndOfCallReport) THEN NoProcessing
    ELSE IF cfg.processor
    THEN LET r == ProcessEndOfCallReport(payload.doc.message, cfg.procEventBus, got, pubOk)
         IN  [err |-> r.err, procCalls |-> 1, getCalls |-> r.getCalls, published |-> r.published]
    ELSE IF cfg.eventBus
    THEN [NoProcessing EXCEPT
             !.published = <<NewEvent(EventWebhookReceived, "vapi-webhook", payload.doc)>>,
             !.err = IF pubOk THEN "" ELSE "publish failed"]
    ELSE NoProcessing

\* what req.Body.Read(body) may return for a body of req.ContentLength bytes:
\* all of it with a nil error, all of it together with io.EOF (the net/http server
\* body once the last byte is read), a part of it with a nil error, or an error
ReadOutcomes == {"full", "fullEOF", "short", "error"}

Ops == {"/webhooks/vapi", "/webhooks/voice", "/webhooks/health", "ProcessEndOfCallReport"}

\* a request as it reaches a handler, with what the environment will answer
\* while it is served; fields a run never looks at are held at one value
Requests_wh ==
    { r \in [ op : Ops, method : {"POST", "GET"}, chunked : BOOLEAN, read : ReadOutcomes,
              doc : Docs, got : GetCallOutcomes, pubOk : BOOLEAN ] :
        /\ r.chunked => r.read = "full"
        /\ (r.method # "POST" \/ r.chunked \/ r.read \in {"fullEOF", "error"}
               \/ r.op = "/webhooks/health")
              => (~r.got.ok /\ r.pubOk)
        /\ r.op = "/webhooks/health" => (~r.chunked /\ r.read = "full" /\ r.doc.json = "null")
        /\ r.op = "ProcessEndOfCallReport"
              => (r.method = "POST" /\ ~r.chunked /\ r.read = "full"
                  /\ r.doc.json = "object" /\ r.doc.message.kind = "object") }

NoResponse_wh ==
    [status |-> 0, text |-> "", reached |-> FALSE, err |-> "", procCalls |-> 0,
     getCalls |-> 0, published |-> <<>>]

\* handleVAPIWebhook and handleVoiceWebhook have the same body
handleWebhook(req, cfg) ==
    IF req.method # "POST"
    THEN [NoResponse_wh EXCEPT !.status = 405, !.text = "Method not allowed"]
    ELSE IF req.chunked
    \* req.ContentLength is -1: make([]byte, -1) panics and no response is written
    THEN NoResponse_wh
    ELSE IF req.read \in {"fullEOF", "error"}
    THEN [NoResponse_wh EXCEPT !.status = 400, !.text = "Failed to read request body"]
    ELSE LET payload == [doc |-> req.doc, intact |-> req.read = "full"]
             r == processWebhookEvent(payload, cfg, req.got, req.pubOk)
         IN  [status |-> IF r.err # "" THEN 500 ELSE 200,
              text |-> IF r.err # "" THEN "Failed to process webhook event" ELSE "OK",
              reached |-> TRUE, err |-> r.err, procCalls |-> r.procCalls,
              getCalls |-> r.getCalls, published |-> r.published]

Configs == [ processor : BOOLEAN, eventBus : BOOLEAN, procEventBus : BOOLEAN ]

NoRequest ==
    [op |-> "none", method |-> "", chunked |-> FALSE, read |-> "full",
     doc |-> [json |-> "null", message |-> NoMessage],
     got |-> CHOOSE g \in GetCallOutcomes : ~g.ok, pubOk |-> TRUE]

IdleWh ==
    /\ whCfg = [processor |-> FALSE, eventBus |-> FALSE, procEventBus |-> FALSE]
    /\ whReq = NoRequest /\ whRes = NoResponse_wh /\ whCount = 0

\* NewWebhookServer and NewCallProcessor accept nil for the bus and the processor
InitWh ==
    /\ whCfg \in { c \in Configs : ~c.processor => ~c.procEventBus }
    /\ whReq \in { r \in Requests_wh : r.op = "ProcessEndOfCallReport" => whCfg.processor }
    /\ whRes = NoResponse_wh /\ whCount = 0

Serve(res) ==
    /\ whCount = 0
    /\ whCount' = 1
    /\ whRes' = res
    /\ UNCHANGED <<whCfg, whReq>>
    /\ UNCHANGED <<xtVars, chVars, busVars, stVars, apiVars, conVars, libVars, accVars, atVars>>

\* a request to /webhooks/vapi
HandleVAPIWebhook ==
    /\ whReq.op = "/webhooks/vapi"
    /\ Serve(handleWebhook(whReq, whCfg))

\* a request to /webhooks/voice
HandleVoiceWebhook ==
    /\ whReq.op = "/webhooks/voice"
    /\ Serve(handleWebhook(whReq, whCfg))

\* a request to /webhooks/health
HandleHealthCheck ==
    /\ whReq.op = "/webhooks/health"
    /\ Serve([NoResponse_wh EXCEPT !.status = 200, !.text = "OK"])

\* a direct call of the exported CallProcessor.ProcessEndOfCallReport
CallProcessEndOfCallReport ==
    /\ whReq.op = "ProcessEndOfCallReport"
    /\ LET r == ProcessEndOfCallReport(whReq.doc.message, whCfg.procEventBus,
                                       whReq.got, whReq.pubOk)
       IN  Serve([NoResponse_wh EXCEPT !.reached = TRUE, !.err = r.err, !.procCalls = 1,
                                       !.getCalls = r.getCalls, !.published = r.published])

(***************************************************************************)
(* RedisEventBus.  Every Subscribe call starts a goroutine that opens its  *)
(* own broker subscription to "events:<type>" and, once it is confirmed,   *)
(* hands every message it receives to all handlers registered for the      *)
(* type at that moment, each in a goroutine of its own.                    *)
(***************************************************************************)
MaxSubscribes == 2
MaxPublishes == 2
\* the payloads that are no Event a foreign publisher sends to one listener
MaxMalformed == 1

EventTypes == {"t1", "t2"}
HandlerIds == {"h1", "h2"}
Events == { [id |-> "e1", type |-> "t1"], [id |-> "e2", type |-> "t2"] }
EventIds == { e.id : e \in Events }

\* json.Marshal(event) and json.Unmarshal(msg.Payload, &event)
MarshalEvent(e) == [valid |-> TRUE, id |-> e.id, type |-> e.type]
\* a payload on "events:<t>" that json.Unmarshal rejects
Malformed(t) == [valid |-> FALSE, id |-> "", type |-> t]
UnmarshalEvent(p) == [ok |-> p.valid, event |-> [id |-> p.id, type |-> p.type]]

RemoveAt(seq, i) == SubSeq(seq, 1, i - 1) \o SubSeq(seq, i + 1, Len(seq))

\* the handlers of a type, as the listener loop ranges over them
HandlersOf(t) == handlers[t]

Count(seq, x) == Cardinality({ i \in 1..Len(seq) : seq[i] = x })

IdleBus ==
    /\ handlers = [t \in EventTypes |-> <<>>]
    /\ listeners = <<>>
    /\ inflight = [h \in HandlerIds |-> [e \in EventIds |-> 0]]
    /\ calls = [h \in HandlerIds |-> [e \in EventIds |-> 0]]
    /\ cancelled = FALSE /\ closed = FALSE
    /\ pubs = [e \in EventIds |-> 0]
    /\ early = [t \in EventTypes |-> FALSE]

\* NewRedisEventBus succeeded: connected, context live, empty registry
InitBus == IdleBus

\* the bus after three Subscribe calls for "t1" have returned, by handlers drawn
\* from three: three entries in call order and three listener goroutines, of
\* which the first two have returned because pubsub.Receive reported an error
Subscribers == {"h1", "h2", "h3"}
InitRegistry ==
    /\ \E hs \in [1..3 -> Subscribers] :
          handlers = [t \in EventTypes |-> IF t = "t1" THEN hs ELSE <<>>]
    /\ listeners = [i \in 1..3 |-> [type |-> "t1", state |-> IF i < 3 THEN "done" ELSE "starting",
                                    queue |-> <<>>, dropped |-> 0, goodAfter |-> FALSE]]
    /\ inflight = [h \in Subscribers |-> [e \in EventIds |-> 0]]
    /\ calls = [h \in Subscribers |-> [e \in EventIds |-> 0]]
    /\ cancelled = FALSE /\ closed = FALSE
    /\ pubs = [e \in EventIds |-> 0]
    /\ early = [t \in EventTypes |-> FALSE]

\* Subscribe(eventType, handler): append to the registry, start the listener goroutine
Subscribe(t, h) ==
    /\ Len(listeners) < MaxSubscribes
    /\ handlers' = [handlers EXCEPT ![t] = Append(@, h)]
    /\ listeners' = Append(listeners,
                            [type |-> t, state |-> "starting", queue |-> <<>>,
                             dropped |-> 0, goodAfter |-> FALSE])
    /\ UNCHANGED <<inflight, calls, cancelled, closed, pubs, early>>

\* Unsubscribe that overwrites the matching entry with the last one and truncates
Unsubscribe_SwapRemove(t, h) ==
    /\ IF \E i \in 1..Len(handlers[t]) : handlers[t][i] = h
       THEN LET i == CHOOSE k \in 1..Len(handlers[t]) :
                        handlers[t][k] = h /\ \A j \in 1..(k - 1) : handlers[t][j] # h
                n == Len(handlers[t])
            IN  handlers' = [handlers EXCEPT ![t] =
                                SubSeq([@ EXCEPT ![i] = handlers[t][n]], 1, n - 1)]
       ELSE UNCHANGED handlers
    /\ UNCHANGED <<listeners, inflight, calls, cancelled, closed, pubs, early>>

\* Unsubscribe(eventType, handler): drop the first matching entry
Unsubscribe(t, h) ==
    /\ IF \E i \in 1..Len(handlers[t]) : handlers[t][i] = h
       THEN LET i == CHOOSE k \in 1..Len(handlers[t]) :
                        handlers[t][k] = h /\ \A j \in 1..(k - 1) : handlers[t][j] # h
            IN  handlers' = [handlers EXCEPT ![t] = RemoveAt(@, i)]
       ELSE UNCHANGED handlers
    /\ UNCHANGED <<listeners, inflight, calls, cancelled, closed, pubs, early>>

\* the goroutine's r.client.Subscribe and pubsub.Receive: the broker confirms the
\* subscription, or the call fails because the bus was stopped
ListenerConfirm(i) ==
    /\ listeners[i].state = "starting"
    /\ listeners' = [listeners EXCEPT ![i].state =
                        IF cancelled \/ closed THEN "done" ELSE "active"]
    /\ UNCHANGED <<handlers, inflight, calls, cancelled, closed, pubs, early>>

\* h1 and h2 are each registered once for the type, and
\* every listener opened for the type is subscribed at the broker
SetupActive(t) ==
    /\ Len(handlers[t]) = 2 /\ Count(handlers[t], "h1") = 1 /\ Count(handlers[t], "h2") = 1
    /\ \A i \in 1..Len(listeners) : listeners[i].type = t => listeners[i].state = "active"

RECURSIVE SumOver(_, _)
SumOver(f, S) == IF S = {} THEN 0 ELSE LET x == CHOOSE y \in S : TRUE IN f[x] + SumOver(f, S \ {x})

PublishCount == SumOver(pubs, EventIds)

\* Publish(event): the broker copies the payload to every subscription of the channel
Publish(e) ==
    /\ PublishCount < MaxPublishes
    /\ ~cancelled /\ ~closed
    /\ listeners' = [i \in 1..Len(listeners) |->
                        IF listeners[i].type = e.type /\ listeners[i].state = "active"
                        THEN [listeners[i] EXCEPT !.queue = Append(@, MarshalEvent(e))]
                        ELSE listeners[i]]
    /\ pubs' = [pubs EXCEPT ![e.id] = @ + 1]
    /\ early' = [early EXCEPT ![e.type] = @ \/ ~SetupActive(e.type)]
    /\ UNCHANGED <<handlers, inflight, calls, cancelled, closed>>

\* another client of the broker publishes a payload that is no Event on
\* "events:<t>": every confirmed subscription of the channel gets it
BrokerInject(t) ==
    /\ \E i \in 1..Len(listeners) : listeners[i].type = t /\ listeners[i].state = "active"
    /\ \A i \in 1..Len(listeners) :
          (listeners[i].type = t /\ listeners[i].state = "active")
          => Count(listeners[i].queue, Malformed(t)) + listeners[i].dropped < MaxMalformed
    /\ listeners' = [i \in 1..Len(listeners) |->
                        IF listeners[i].type = t /\ listeners[i].state = "active"
                        THEN [listeners[i] EXCEPT !.queue = Append(@, Malformed(t))]
                        ELSE listeners[i]]
    /\ UNCHANGED <<handlers, inflight, calls, cancelled, closed, pubs, early>>

\* a listener that returns when a payload does not parse
ListenerReceive_ReturnOnBadPayload(i) ==
    /\ listeners[i].state = "active"
    /\ listeners[i].queue # <<>>
    /\ LET msg == Head(listeners[i].queue)
           u == UnmarshalEvent(msg)
           hs == HandlersOf(listeners[i].type)
       IN  /\ listeners' = [listeners EXCEPT
                              ![i].queue = IF u.ok THEN Tail(@) ELSE <<>>,
                              ![i].state = IF u.ok THEN @ ELSE "done",
                              ![i].dropped = IF u.ok THEN @ ELSE @ + 1,
                              ![i].goodAfter = @ \/ (u.ok /\ listeners[i].dropped > 0)]
           /\ inflight' = IF u.ok
                          THEN [h \in DOMAIN inflight |->
                                  [inflight[h] EXCEPT ![u.event.id] = @ + Count(hs, h)]]
                          ELSE inflight
    /\ UNCHANGED <<handlers, calls, cancelled, closed, pubs, early>>

\* case msg := <-ch: parse the event, start one goroutine per registered handler;
\* dropped counts the payloads that did not parse, goodAfter records an event
\* dispatched after such a payload
ListenerReceive(i) ==
    /\ listeners[i].state = "active"
    /\ listeners[i].queue # <<>>
    /\ LET msg == Head(listeners[i].queue)
           u == UnmarshalEvent(msg)
           hs == HandlersOf(listeners[i].type)
       IN  /\ listeners' = [listeners EXCEPT
                              ![i].queue = Tail(@),
                              ![i].dropped = IF u.ok THEN @ ELSE @ + 1,
                              ![i].goodAfter = @ \/ (u.ok /\ listeners[i].dropped > 0)]
           /\ inflight' = IF u.ok
                          THEN [h \in DOMAIN inflight |->
                                  [inflight[h] EXCEPT ![u.event.id] = @ + Count(hs, h)]]
                          ELSE inflight
    /\ UNCHANGED <<handlers, calls, cancelled, closed, pubs, early>>

\* a select that takes ctx.Done() only when no message is waiting
ListenerStop_WhenIdle(i) ==
    /\ listeners[i].state = "active"
    /\ cancelled
    /\ listeners[i].queue = <<>>
    /\ listeners' = [listeners EXCEPT ![i].state = "done"]
    /\ UNCHANGED <<handlers, inflight, calls, cancelled, closed, pubs, early>>

\* case <-r.ctx.Done(): the listener returns and its subscription is closed
ListenerStop(i) ==
    /\ listeners[i].state = "active"
    /\ cancelled
    /\ listeners' = [listeners EXCEPT ![i].state = "done", ![i].queue = <<>>]
    /\ UNCHANGED <<handlers, inflight, calls, cancelled, closed, pubs, early>>

\* Handler.Handle(event) error: what the handler returns; "h3" is a handler
\* that fails on every event, the others return nil
Handle(h, e) == IF h = "h3" THEN "error" ELSE "nil"

\* a handler goroutine that runs the handler again when it returned an error
HandlerRun_RetryOnError(h, e) ==
    /\ inflight[h][e] > 0
    /\ LET err == Handle(h, e)
       IN  inflight' = IF err = "nil" THEN [inflight EXCEPT ![h][e] = @ - 1] ELSE inflight
    /\ calls' = [calls EXCEPT ![h][e] = @ + 1]
    /\ UNCHANGED <<handlers, listeners, cancelled, closed, pubs, early>>

\* go func(h Handler, e Event) { h.Handle(&e) }: the goroutine calls the handler
\* once and ends; what Handle returns is dropped
HandlerRun(h, e) ==
    /\ inflight[h][e] > 0
    /\ LET err == Handle(h, e)
       IN  inflight' = [inflight EXCEPT ![h][e] = @ - 1]
    /\ calls' = [calls EXCEPT ![h][e] = @ + 1]
    /\ UNCHANGED <<handlers, listeners, cancelled, closed, pubs, early>>

\* Stop(): cancel the context, close the client
Stop ==
    /\ ~cancelled
    /\ cancelled' = TRUE
    /\ closed' = TRUE
    /\ UNCHANGED <<handlers, listeners, inflight, calls, pubs, early>>
    /\ UNCHANGED <<xtVars, chVars, whVars, stVars, apiVars, conVars, libVars, accVars, atVars>>

BusSubscribe ==
    /\ \E t \in EventTypes, h \in HandlerIds : Subscribe(t, h)
    /\ UNCHANGED <<xtVars, chVars, whVars, stVars, apiVars, conVars, libVars, accVars, atVars>>
BusUnsubscribe ==
    /\ \E t \in EventTypes, h \in DOMAIN calls : Unsubscribe(t, h) /\ handlers' # handlers
    /\ UNCHANGED <<xtVars, chVars, whVars, stVars, apiVars, conVars, libVars, accVars, atVars>>
BusPublish ==
    /\ \E e \in Events : Publish(e)
    /\ UNCHANGED <<xtVars, chVars, whVars, stVars, apiVars, conVars, libVars, accVars, atVars>>
BusListenerConfirm ==
    /\ \E i \in 1..Len(listeners) : ListenerConfirm(i)
    /\ UNCHANGED <<xtVars, chVars, whVars, stVars, apiVars, conVars, libVars, accVars, atVars>>
BusListenerReceive ==
    /\ \E i \in 1..Len(listeners) : ListenerReceive(i)
    /\ UNCHANGED <<xtVars, chVars, whVars, stVars, apiVars, conVars, libVars, accVars, atVars>>
BusListenerStop ==
    /\ \E i \in 1..Len(listeners) : ListenerStop(i)
    /\ UNCHANGED <<xtVars, chVars, whVars, stVars, apiVars, conVars, libVars, accVars, atVars>>
BusBrokerInject ==
    /\ \E t \in EventTypes : BrokerInject(t)
    /\ UNCHANGED <<xtVars, chVars, whVars, stVars, apiVars, conVars, libVars, accVars, atVars>>
BusHandlerRun ==
    /\ \E h \in DOMAIN calls, e \in EventIds : HandlerRun(h, e)
    /\ UNCHANGED <<xtVars, chVars, whVars, stVars, apiVars, conVars, libVars, accVars, atVars>>

(***************************************************************************)
(* The client operations against the remote API.  An operation makes one   *)
(* to three HTTP exchanges; each is answered by a transport error or by a  *)
(* response with a status and a body that is JSON of the expected shape or *)
(* not, and that can be read to its end or breaks off.  The arguments are  *)
(* taken to pass the operation's own checks, so that a request is sent.    *)
(***************************************************************************)
ApiStatuses == StatusCodes \cup {201}
ApiOutcomes ==
    { [kind |-> "transport", status |-> 0, body |-> "none", readOk |-> FALSE] }
    \cup [ kind : {"response"}, status : ApiStatuses, body : {"json", "garbage"},
           readOk : BOOLEAN ]

\* body, _ := io.ReadAll(resp.Body): what the error message gets
Carried(o) == IF o.readOk THEN "full" ELSE "partial"

ApiOk(n) == [err |-> "", body |-> "none", result |-> TRUE, http |-> n]
ApiErr(msg, body, n) == [err |-> msg, body |-> body, result |-> FALSE, http |-> n]

\* c.httpClient.Do, the status check against the accepted codes, and the
\* decoding of the body, of the n-th exchange of an operation
Exchange(o, accepted, msg, n) ==
    IF o.kind = "transport" THEN ApiErr("transport", "none", n)
    ELSE IF o.status \notin accepted THEN ApiErr(msg, Carried(o), n)
    ELSE IF ~(o.readOk /\ o.body = "json") THEN ApiErr("decode", "none", n)
    ELSE ApiOk(n)

ListAssistants(outs) == Exchange(outs[1], {200}, "error listing assistants", 1)
GetAssistant(o, n) == Exchange(o, {200}, "error getting assistant", n)
ListCalls(outs) == Exchange(outs[1], {200}, "error listing calls", 1)
GetCall(outs) == Exchange(outs[1], {200}, "error getting call", 1)
UploadFile(outs) == Exchange(outs[1], {200, 201}, "failed to upload file", 1)
CreateQueryTool(outs) == Exchange(outs[1], {200, 201}, "failed to create query tool", 1)

\* the PATCH of UpdateAssistant and AttachToolToAssistant: the body is not decoded
Patch(o, n) ==
    IF o.kind = "transport" THEN ApiErr("transport", "none", n)
    ELSE IF o.status \notin {200, 201, 204} THEN ApiErr("failed to update assistant", Carried(o), n)
    ELSE ApiOk(n)

\* GET the assistant, PATCH it, then GetAssistant
UpdateAssistant(outs) ==
    LET get == Exchange(outs[1], {200}, "failed to get assistant details", 1)
    IN  IF get.err # "" THEN get
        ELSE IF Patch(outs[2], 2).err # "" THEN Patch(outs[2], 2)
        ELSE GetAssistant(outs[3], 3)

\* GET the assistant, return if the tool is attached, PATCH it; only an error is returned
AttachToolToAssistant(outs, attached) ==
    LET get == Exchange(outs[1], {200}, "failed to get assistant details", 1)
    IN  IF get.err # "" THEN get
        ELSE IF attached THEN [ApiOk(1) EXCEPT !.result = FALSE]
        ELSE [Patch(outs[2], 2) EXCEPT !.result = FALSE]

\* io.ReadAll before the status check: a body that breaks off is a read error
ChatOutcome(o) ==
    IF o.kind = "response" /\ ~o.readOk
    THEN [kind |-> "readError", status |-> o.status, body |-> "none"]
    ELSE [kind |-> o.kind, status |-> o.status, body |-> o.body]

\* a request that passes the checks of CreateChat
SendableRequest ==
    [isNil |-> FALSE, input |-> "text", assistantId |-> TRUE, assistant |-> FALSE,
     sessionId |-> FALSE, previousChatId |-> FALSE, name |-> [set |-> FALSE, val |-> <<>>]]

\* CreateSession with an assistant id: the exchange of CreateChat
CreateSession(outs) ==
    LET o == ChatOutcome(outs[1])
    IN  IF o.kind = "transport" THEN ApiErr("failed to send request", "none", 1)
        ELSE IF o.kind = "readError" THEN ApiErr("failed to read response body", "none", 1)
        ELSE IF o.status >= 400 THEN ApiErr("API error", "full", 1)
        ELSE IF o.body # "json" THEN ApiErr("failed to parse response", "none", 1)
        ELSE ApiOk(1)

\* the reader of CreateStreamingChat up to its scanner: an error on errorChan,
\* or the body handed to the scanner (result)
CreateStreamingChat(outs) ==
    IF outs[1].kind = "transport" THEN ApiErr("failed to send request", "none", 1)
    ELSE IF outs[1].status >= 400 THEN ApiErr("API error", Carried(outs[1]), 1)
    ELSE ApiOk(1)

ApiOps ==
    {"ListAssistants", "GetAssistant", "UpdateAssistant", "ListCalls", "GetCall",
     "UploadFile", "CreateQueryTool", "AttachToolToAssistant",
     "CreateChat", "CreateStreamingChat", "CreateSession"}

\* the most exchanges the operation makes
Exchanges(op) ==
    IF op = "UpdateAssistant" THEN 3 ELSE IF op = "AttachToolToAssistant" THEN 2 ELSE 1

NoApiResult == [err |-> "", body |-> "none", result |-> FALSE, http |-> 0]

IdleApi ==
    /\ apiCall = [op |-> "none", outs |-> <<>>, attached |-> FALSE, done |-> TRUE]
    /\ apiRes = NoApiResult

InitApi ==
    /\ \E op \in ApiOps :
          \E outs \in [1..Exchanges(op) -> ApiOutcomes],
             attached \in (IF op = "AttachToolToAssistant" THEN BOOLEAN ELSE {FALSE}) :
                apiCall = [op |-> op, outs |-> outs, attached |-> attached, done |-> FALSE]
    /\ apiRes = NoApiResult

\* the call returns r
Returns(r) ==
    /\ ~apiCall.done
    /\ apiRes' = r
    /\ apiCall' = [apiCall EXCEPT !.done = TRUE]
    /\ UNCHANGED <<xtVars, chVars, whVars, busVars, stVars, conVars, libVars, accVars, atVars>>

ApiListAssistants ==
    /\ apiCall.op = "ListAssistants"
    /\ Returns(ListAssistants(apiCall.outs))
ApiGetAssistant ==
    /\ apiCall.op = "GetAssistant"
    /\ Returns(GetAssistant(apiCall.outs[1], 1))
ApiUpdateAssistant ==
    /\ apiCall.op = "UpdateAssistant"
    /\ Returns(UpdateAssistant(apiCall.outs))
ApiListCalls ==
    /\ apiCall.op = "ListCalls"
    /\ Returns(ListCalls(apiCall.outs))
ApiGetCall ==
    /\ apiCall.op = "GetCall"
    /\ Returns(GetCall(apiCall.outs))
ApiUploadFile ==
    /\ apiCall.op = "UploadFile"
    /\ Returns(UploadFile(apiCall.outs))
ApiCreateQueryTool ==
    /\ apiCall.op = "CreateQueryTool"
    /\ Returns(CreateQueryTool(apiCall.outs))
ApiAttachToolToAssistant ==
    /\ apiCall.op = "AttachToolToAssistant"
    /\ Returns(AttachToolToAssistant(apiCall.outs, apiCall.attached))
ApiCreateChat ==
    /\ apiCall.op = "CreateChat"
    /\ Returns(CreateChat(SendableRequest, ChatOutcome(apiCall.outs[1])))
ApiCreateStreamingChat ==
    /\ apiCall.op = "CreateStreamingChat"
    /\ Returns(CreateStreamingChat(apiCall.outs))
ApiCreateSession ==
    /\ apiCall.op = "CreateSession"
    /\ Returns(CreateSession(apiCall.outs))

(***************************************************************************)
(* The states of the caller's loop, the Library lifecycle, the registry    *)
(* accesses and the remote assistant before anything has run.              *)
(***************************************************************************)
Callers == {"c1", "c2"}

IdleCon == consumer = "none"

IdleLib ==
    /\ running = FALSE /\ server = "nil"
    /\ libPc = [c \in {"c1"} |-> "idle"]
    /\ libOp = [c \in {"c1"} |-> "none"]
    /\ libRet = [c \in {"c1"} |-> ""]
    /\ libCalls = 0 /\ started = 0

IdleAcc == access = {}

IdleAt ==
    /\ toolIds = <<>>
    /\ atPc = [c \in Callers |-> "idle"]
    /\ atTool = [c \in Callers |-> ""]
    /\ atSeen = [c \in Callers |-> <<>>]
    /\ atRet = [c \in Callers |-> ""]
    /\ atOk = {} /\ patches = 0

(***************************************************************************)
(* Specifications.                                                         *)
(***************************************************************************)
NextXt == XtExtract
StartXt == InitXt /\ IdleCh /\ IdleWh /\ IdleBus /\ IdleSt /\ IdleApi /\ IdleCon /\ IdleLib /\ IdleAcc /\ IdleAt
SpecXt == StartXt /\ [][NextXt]_vars

NextParse == XtParse
StartParse == InitParse /\ IdleCh /\ IdleWh /\ IdleBus /\ IdleSt /\ IdleApi /\ IdleCon /\ IdleLib /\ IdleAcc /\ IdleAt
SpecParse == StartParse /\ [][NextParse]_vars

NextApi ==
    \/ ApiListAssistants \/ ApiGetAssistant \/ ApiUpdateAssistant
    \/ ApiListCalls \/ ApiGetCall \/ ApiUploadFile \/ ApiCreateQueryTool
    \/ ApiAttachToolToAssistant
    \/ ApiCreateChat \/ ApiCreateStreamingChat \/ ApiCreateSession
StartApi == IdleXt /\ IdleCh /\ IdleWh /\ IdleBus /\ IdleSt /\ InitApi /\ IdleCon /\ IdleLib /\ IdleAcc /\ IdleAt
SpecApi == StartApi /\ [][NextApi]_vars

NextCh ==
    \/ ChValidateRequest \/ ChBuilderValidate \/ ChCreateChat
    \/ StCall \/ StValidate \/ StDo
    \/ StCloseErr \/ StCloseResp
StartChat == IdleXt /\ InitCh /\ IdleWh /\ IdleBus /\ IdleSt /\ IdleApi /\ IdleCon /\ IdleLib /\ IdleAcc /\ IdleAt
SpecChat ==
    StartChat
    /\ [][NextCh]_vars

NextWh == HandleVAPIWebhook \/ HandleVoiceWebhook \/ HandleHealthCheck \/ CallProcessEndOfCallReport
StartWebhook == IdleXt /\ IdleCh /\ InitWh /\ IdleBus /\ IdleSt /\ IdleApi /\ IdleCon /\ IdleLib /\ IdleAcc /\ IdleAt
SpecWebhook ==
    StartWebhook
    /\ [][NextWh]_vars

NextBus ==
    \/ BusSubscribe \/ BusUnsubscribe \/ BusPublish
    \/ BusListenerConfirm \/ BusListenerReceive \/ BusListenerStop
    \/ BusHandlerRun \/ BusBrokerInject \/ Stop
StartBus == IdleXt /\ IdleCh /\ IdleWh /\ InitBus /\ IdleSt /\ IdleApi /\ IdleCon /\ IdleLib /\ IdleAcc /\ IdleAt
SpecBus ==
    StartBus
    /\ [][NextBus]_vars

\* the bus with three handlers registered for one type: every operation but
\* Subscribe, whose three calls have been made
NextRegistry ==
    \/ BusUnsubscribe \/ BusPublish
    \/ BusListenerConfirm \/ BusListenerReceive \/ BusListenerStop
    \/ BusHandlerRun \/ BusBrokerInject \/ Stop
StartRegistry == IdleXt /\ IdleCh /\ IdleWh /\ InitRegistry /\ IdleSt /\ IdleApi /\ IdleCon /\ IdleLib /\ IdleAcc /\ IdleAt
SpecRegistry ==
    StartRegistry
    /\ [][NextRegistry]_vars

\* the requests the streaming specification starts from: one of each class
StreamRequests ==
    { r \in Requests :
        /\ r.name = [set |-> FALSE, val |-> <<>>]
        /\ r.input \in {"nil", "text"}
        /\ ~r.assistant /\ (r.previousChatId <=> r.sessionId)
        /\ (r.input = "nil" \/ r.sessionId) => ~r.assistantId }

NextSt ==
    \/ StCall \/ ReaderStep
    \/ ConsumerRecv \/ ConsumerRecvErr \/ CtxCancel
StartStream ==
    /\ IdleXt /\ IdleWh /\ IdleBus /\ IdleSt /\ IdleApi /\ IdleCon /\ IdleLib /\ IdleAcc /\ IdleAt
    /\ chReq \in StreamRequests /\ chOp = "none" /\ chErr = "" /\ chHttp = 0
SpecStream ==
    StartStream
    /\ [][NextSt]_vars

\* The reader goroutine runs whenever it can: its checks, the HTTP exchange
\* (which returns, if only by failing), the select when one of its cases is ready
\* and the deferred closes are taken in the end.  The scanner is only sure to
\* return once the context is cancelled, which closes the response body; a
\* silent server holds it otherwise.
FairSpecStream ==
    /\ SpecStream
    /\ WF_vars(StValidate) /\ WF_vars(StDo)
    /\ WF_vars(StSelectSend) /\ WF_vars(StSelectCancel)
    /\ WF_vars(ctxDone /\ (StScanLine \/ StScanEOF \/ StScanError))
    /\ WF_vars(StCloseErr) /\ WF_vars(StCloseResp)

\* The listener goroutines run whenever they can: the confirmation wait returns
\* (with an error once the context is cancelled or the client closed) and the
\* select takes its ctx.Done() case when it is ready; no message has to arrive.
FairSpecBus ==
    /\ SpecBus
    /\ \A k \in 1..MaxSubscribes :
          /\ WF_vars(k \in 1..Len(listeners) /\ ListenerConfirm(k)
                       /\ UNCHANGED <<xtVars, chVars, whVars, stVars, apiVars, conVars, libVars, accVars, atVars>>)
          /\ WF_vars(k \in 1..Len(listeners) /\ ListenerStop(k)
                       /\ UNCHANGED <<xtVars, chVars, whVars, stVars, apiVars, conVars, libVars, accVars, atVars>>)

(***************************************************************************)
(* The caller of CreateStreamingChat, running the loop of the chat README  *)
(* and of examples/chat_example.go: a select over responseChan, errorChan  *)
(* and (in the example) ctx.Done().  A select with several ready cases     *)
(* takes any one of them.                                                  *)
(***************************************************************************)
\* case response, ok := <-responseChan: return when closed or when response.Done
SelectResponse ==
    /\ consumer = "select"
    /\ responseChan # <<>> \/ respClosed
    /\ IF responseChan # <<>>
       THEN /\ Len(received) < MaxReceives
            /\ received' = Append(received, Head(responseChan))
            /\ responseChan' = Tail(responseChan)
            /\ consumer' = IF Head(responseChan).done THEN "done" ELSE "select"
       ELSE /\ consumer' = "completed"
            /\ UNCHANGED <<received, responseChan>>
    /\ UNCHANGED <<chVars, stPc, skipped, stPending, errorChan, respClosed, errClosed,
                   ctxDone, stBuf, errsSent, served>>
    /\ UNCHANGED <<xtVars, whVars, busVars, apiVars, libVars, accVars, atVars>>

\* case err := <-errorChan: return when err != nil, loop on the nil of a closed channel
SelectError ==
    /\ consumer = "select"
    /\ errorChan # <<>> \/ errClosed
    /\ IF errorChan # <<>>
       THEN errorChan' = Tail(errorChan) /\ consumer' = "failed"
       ELSE UNCHANGED <<errorChan, consumer>>
    /\ UNCHANGED <<chVars, stPc, skipped, stPending, responseChan, respClosed, errClosed,
                   ctxDone, stBuf, received, errsSent, served>>
    /\ UNCHANGED <<xtVars, whVars, busVars, apiVars, libVars, accVars, atVars>>

\* case <-ctx.Done(): return
SelectCtxDone ==
    /\ consumer = "select"
    /\ ctxDone
    /\ consumer' = "timeout"
    /\ UNCHANGED <<chVars, stVars>>
    /\ UNCHANGED <<xtVars, whVars, busVars, apiVars, libVars, accVars, atVars>>

\* CreateStreamingChat returns the channels and the caller enters its loop
ConsumerCall ==
    /\ consumer = "select"
    /\ StCall

NextConsumer ==
    \/ ConsumerCall \/ ReaderStep \/ CtxCancel
    \/ SelectResponse \/ SelectError \/ SelectCtxDone
StartConsumer ==
    /\ IdleXt /\ IdleWh /\ IdleBus /\ IdleSt /\ IdleApi /\ IdleLib /\ IdleAcc /\ IdleAt
    /\ consumer = "select"
    /\ chReq \in StreamRequests /\ chOp = "none" /\ chErr = "" /\ chHttp = 0
SpecConsumer ==
    StartConsumer
    /\ [][NextConsumer]_vars

(***************************************************************************)
(* Library.Start and Library.Stop (vapi.go) over the event bus and the     *)
(* webhook server of the voice client.  A call is a sequence of steps: the *)
(* read of l.running, the calls into the services, the write of l.running. *)
(* One caller makes its calls one after the other; with two callers the    *)
(* steps of their calls interleave, as nothing in Library serialises them. *)
(***************************************************************************)
MaxLibraryCalls == 5

ErrAlreadyRunning == "library is already running"
ErrNotRunning == "library is not running"
ErrStartBus == "failed to start event bus"
ErrStartVoice == "failed to start voice client"
ErrStopVoice == "failed to stop voice client"
ErrStopBus == "failed to stop event bus"

\* RedisEventBus.Start(): "Redis event bus is started when created", returns nil
BusStartOutcomes == {"nil"}
\* VoiceClient.Start() returns what WebhookServer.Start() returns, which is nil
VoiceStartOutcomes == {"nil"}
\* http.Server.Close() and redis.Client.Close() return nil or an error
CloseOutcomes == {"nil", "error"}

\* the caller returns from its call with ret
LibReturn(c, ret) ==
    /\ libRet' = [libRet EXCEPT ![c] = ret]
    /\ libPc' = [libPc EXCEPT ![c] = "idle"]

\* the caller goes on to the next step of its call
LibGoto(c, pc) ==
    /\ libPc' = [libPc EXCEPT ![c] = pc]
    /\ UNCHANGED libRet

\* Library.Start(): if l.running { return error }
LibStart(c) ==
    /\ libPc[c] = "idle"
    /\ libCalls < MaxLibraryCalls
    /\ libCalls' = libCalls + 1
    /\ libOp' = [libOp EXCEPT ![c] = "Start"]
    /\ IF running THEN LibReturn(c, ErrAlreadyRunning)
       ELSE /\ libPc' = [libPc EXCEPT ![c] = "busStart"]
            /\ libRet' = [libRet EXCEPT ![c] = ""]
    /\ UNCHANGED <<running, server, started, busVars>>

\* Library.Start(): l.eventBus.Start()
LibStartBus(c) ==
    /\ libPc[c] = "busStart"
    /\ \E out \in BusStartOutcomes :
          IF out = "nil" THEN LibGoto(c, "voiceStart") ELSE LibReturn(c, ErrStartBus)
    /\ UNCHANGED <<running, server, libOp, libCalls, started, busVars>>

\* Library.Start(): l.voiceClient.Start(), which builds the http.Server and
\* starts ListenAndServe in a goroutine; on an error l.eventBus.Stop()
LibStartVoice(c) ==
    /\ libPc[c] = "voiceStart"
    /\ server' = "starting"
    /\ \E out \in VoiceStartOutcomes :
          IF out = "nil"
          THEN LibGoto(c, "setRunning") /\ UNCHANGED <<cancelled, closed>>
          ELSE /\ cancelled' = TRUE /\ closed' = TRUE
               /\ LibReturn(c, ErrStartVoice)
    /\ UNCHANGED <<running, libOp, libCalls, started>>
    /\ UNCHANGED <<handlers, listeners, inflight, calls, pubs, early>>

\* Library.Start(): l.running = true; return nil
LibStartDone(c) ==
    /\ libPc[c] = "setRunning"
    /\ running' = TRUE
    /\ started' = started + 1
    /\ LibReturn(c, "nil")
    /\ UNCHANGED <<server, libOp, libCalls, busVars>>

\* Library.Stop(): if !l.running { return error }
LibStop(c) ==
    /\ libPc[c] = "idle"
    /\ libCalls < MaxLibraryCalls
    /\ libCalls' = libCalls + 1
    /\ libOp' = [libOp EXCEPT ![c] = "Stop"]
    /\ IF ~running THEN LibReturn(c, ErrNotRunning)
       ELSE /\ libPc' = [libPc EXCEPT ![c] = "voiceStop"]
            /\ libRet' = [libRet EXCEPT ![c] = ""]
    /\ UNCHANGED <<running, server, started, busVars>>

\* Library.Stop(): l.voiceClient.Stop(), which closes w.server when there is one
LibStopVoice(c) ==
    /\ libPc[c] = "voiceStop"
    /\ IF server = "nil"
       THEN LibGoto(c, "busStop") /\ UNCHANGED server
       ELSE /\ server' = "closed"
            /\ \E out \in CloseOutcomes :
                  IF out = "nil" THEN LibGoto(c, "busStop") ELSE LibReturn(c, ErrStopVoice)
    /\ UNCHANGED <<running, libOp, libCalls, started, busVars>>

\* Library.Stop(): l.eventBus.Stop(), which cancels the context and closes the client
LibStopBus(c) ==
    /\ libPc[c] = "busStop"
    /\ cancelled' = TRUE
    /\ closed' = TRUE
    /\ \E out \in CloseOutcomes :
          IF out = "nil" THEN LibGoto(c, "clearRunning") ELSE LibReturn(c, ErrStopBus)
    /\ UNCHANGED <<running, server, libOp, libCalls, started>>
    /\ UNCHANGED <<handlers, listeners, inflight, calls, pubs, early>>

\* Library.Stop(): l.running = false; return nil
LibStopDone(c) ==
    /\ libPc[c] = "clearRunning"
    /\ running' = FALSE
    /\ started' = 0
    /\ LibReturn(c, "nil")
    /\ UNCHANGED <<server, libOp, libCalls, busVars>>

\* the goroutine of WebhookServer.Start: ListenAndServe binds the port and
\* serves, or fails (the port is taken); its error goes nowhere
WebListen ==
    /\ server = "starting"
    /\ server' \in {"serving", "failed"}
    /\ UNCHANGED <<running, libPc, libOp, libRet, libCalls, started, busVars>>
    /\ UNCHANGED <<xtVars, chVars, whVars, stVars, apiVars, conVars, accVars, atVars>>

LibraryStart ==
    /\ \E c \in DOMAIN libPc : LibStart(c)
    /\ UNCHANGED <<xtVars, chVars, whVars, stVars, apiVars, conVars, accVars, atVars>>
LibraryStartBus ==
    /\ \E c \in DOMAIN libPc : LibStartBus(c)
    /\ UNCHANGED <<xtVars, chVars, whVars, stVars, apiVars, conVars, accVars, atVars>>
LibraryStartVoice ==
    /\ \E c \in DOMAIN libPc : LibStartVoice(c)
    /\ UNCHANGED <<xtVars, chVars, whVars, stVars, apiVars, conVars, accVars, atVars>>
LibraryStartDone ==
    /\ \E c \in DOMAIN libPc : LibStartDone(c)
    /\ UNCHANGED <<xtVars, chVars, whVars, stVars, apiVars, conVars, accVars, atVars>>
LibraryStop ==
    /\ \E c \in DOMAIN libPc : LibStop(c)
    /\ UNCHANGED <<xtVars, chVars, whVars, stVars, apiVars, conVars, accVars, atVars>>
LibraryStopVoice ==
    /\ \E c \in DOMAIN libPc : LibStopVoice(c)
    /\ UNCHANGED <<xtVars, chVars, whVars, stVars, apiVars, conVars, accVars, atVars>>
LibraryStopBus ==
    /\ \E c \in DOMAIN libPc : LibStopBus(c)
    /\ UNCHANGED <<xtVars, chVars, whVars, stVars, apiVars, conVars, accVars, atVars>>
LibraryStopDone ==
    /\ \E c \in DOMAIN libPc : LibStopDone(c)
    /\ UNCHANGED <<xtVars, chVars, whVars, stVars, apiVars, conVars, accVars, atVars>>

NextLibrary ==
    \/ LibraryStart \/ LibraryStartBus \/ LibraryStartVoice \/ LibraryStartDone
    \/ LibraryStop \/ LibraryStopVoice \/ LibraryStopBus \/ LibraryStopDone
    \/ WebListen

\* vapi.New returned a Library: services created, nothing started, one caller
StartLibrary ==
    IdleXt /\ IdleCh /\ IdleWh /\ IdleBus /\ IdleSt /\ IdleApi /\ IdleCon /\ IdleLib /\ IdleAcc /\ IdleAt
SpecLibrary ==
    StartLibrary
    /\ [][NextLibrary]_vars

\* the same Library shared by two callers
InitLibraryRace ==
    /\ running = FALSE /\ server = "nil"
    /\ libPc = [c \in Callers |-> "idle"]
    /\ libOp = [c \in Callers |-> "none"]
    /\ libRet = [c \in Callers |-> ""]
    /\ libCalls = 0 /\ started = 0
StartLibraryRace ==
    IdleXt /\ IdleCh /\ IdleWh /\ IdleBus /\ IdleSt /\ IdleApi /\ IdleCon /\ InitLibraryRace /\ IdleAcc /\ IdleAt
SpecLibraryRace ==
    StartLibraryRace
    /\ [][NextLibrary]_vars

(***************************************************************************)
(* The accesses to r.handlers.  RedisEventBus has no lock: Subscribe and    *)
(* Unsubscribe read the map entry and write it back, a listener reads it    *)
(* when it ranges over the handlers, and each of these takes time.  An      *)
(* access is open from its first read to its write or last read; an access *)
(* that overlapped another may have worked on the entry it saw first or on  *)
(* the entry as it is now, and the Go runtime may end the process when it   *)
(* finds two goroutines in the map at once.                                 *)
(***************************************************************************)
Fatal == [by |-> "runtime", op |-> "fatal", mode |-> "none", t |-> "", h |-> "", seen |-> <<>>]
Crashed == Fatal \in access

Accessing(who) == \E a \in access : a.by = who

\* what an access that began on `seen` may find when it comes to use the entry
EntryRead(a) == {a.seen, handlers[a.t]}

\* the access overlapped a write, or is a write that overlapped any access
Overlapped(a) ==
    \E b \in access : b # a /\ (a.mode = "write" \/ b.mode = "write")

RemoveFirst(seq, h) ==
    IF \E i \in 1..Len(seq) : seq[i] = h
    THEN RemoveAt(seq, CHOOSE k \in 1..Len(seq) : seq[k] = h /\ \A j \in 1..(k - 1) : seq[j] # h)
    ELSE seq

\* Subscribe: r.handlers[eventType] is read for the append
AccSubscribeBegin ==
    /\ ~Crashed
    /\ \E c \in Callers, t \in EventTypes, h \in HandlerIds :
          /\ ~Accessing(c)
          /\ Len(listeners) + Cardinality({a \in access : a.op = "Subscribe"}) < MaxSubscribes
          /\ access' = access \cup {[by |-> c, op |-> "Subscribe", mode |-> "write",
                                     t |-> t, h |-> h, seen |-> handlers[t]]}
    /\ UNCHANGED busVars
    /\ UNCHANGED <<xtVars, chVars, whVars, stVars, apiVars, conVars, libVars, atVars>>

\* Subscribe: the appended slice is stored and the listener goroutine started
AccSubscribeEnd ==
    /\ ~Crashed
    /\ \E a \in access :
          /\ a.op = "Subscribe"
          /\ \E base \in EntryRead(a) :
                handlers' = [handlers EXCEPT ![a.t] = Append(base, a.h)]
          /\ listeners' = Append(listeners,
                                 [type |-> a.t, state |-> "starting", queue |-> <<>>,
                                  dropped |-> 0, goodAfter |-> FALSE])
          /\ access' = access \ {a}
    /\ UNCHANGED <<inflight, calls, cancelled, closed, pubs, early>>
    /\ UNCHANGED <<xtVars, chVars, whVars, stVars, apiVars, conVars, libVars, atVars>>

\* Unsubscribe: handlers := r.handlers[eventType] and the search for the handler
AccUnsubscribeBegin ==
    /\ ~Crashed
    /\ \E c \in Callers, t \in EventTypes, h \in HandlerIds :
          /\ ~Accessing(c)
          /\ Count(handlers[t], h) > 0
          /\ access' = access \cup {[by |-> c, op |-> "Unsubscribe", mode |-> "write",
                                     t |-> t, h |-> h, seen |-> handlers[t]]}
    /\ UNCHANGED busVars
    /\ UNCHANGED <<xtVars, chVars, whVars, stVars, apiVars, conVars, libVars, atVars>>

\* Unsubscribe: the slice without the first match is stored
AccUnsubscribeEnd ==
    /\ ~Crashed
    /\ \E a \in access :
          /\ a.op = "Unsubscribe"
          /\ \E base \in EntryRead(a) :
                handlers' = [handlers EXCEPT ![a.t] = RemoveFirst(base, a.h)]
          /\ access' = access \ {a}
    /\ UNCHANGED <<listeners, inflight, calls, cancelled, closed, pubs, early>>
    /\ UNCHANGED <<xtVars, chVars, whVars, stVars, apiVars, conVars, libVars, atVars>>

\* a listener has a message and starts to range over r.handlers[eventType]
AccDispatchBegin ==
    /\ ~Crashed
    /\ \E i \in 1..Len(listeners) :
          /\ ~Accessing(ToString(i))
          /\ listeners[i].state = "active" /\ listeners[i].queue # <<>>
          /\ access' = access \cup {[by |-> ToString(i), op |-> "dispatch", mode |-> "read",
                                     t |-> listeners[i].type, h |-> "", seen |-> handlers[listeners[i].type]]}
    /\ UNCHANGED busVars
    /\ UNCHANGED <<xtVars, chVars, whVars, stVars, apiVars, conVars, libVars, atVars>>

\* the range is through: one handler goroutine per entry it came across
AccDispatchEnd ==
    /\ ~Crashed
    /\ \E a \in access, i \in 1..Len(listeners) :
          /\ a.op = "dispatch" /\ a.by = ToString(i)
          /\ LET u == UnmarshalEvent(Head(listeners[i].queue))
             IN  \E hs \in EntryRead(a) :
                    inflight' = [h \in DOMAIN inflight |->
                                   [inflight[h] EXCEPT ![u.event.id] = @ + Count(hs, h)]]
          /\ listeners' = [listeners EXCEPT ![i].queue = Tail(@)]
          /\ access' = access \ {a}
    /\ UNCHANGED <<handlers, calls, cancelled, closed, pubs, early>>
    /\ UNCHANGED <<xtVars, chVars, whVars, stVars, apiVars, conVars, libVars, atVars>>

\* the runtime finds a goroutine writing the map while another is in it and
\* ends the process ("fatal error: concurrent map writes" or "... read and map write")
AccFatal ==
    /\ ~Crashed
    /\ \E a \in access : Overlapped(a)
    /\ access' = {Fatal}
    /\ UNCHANGED busVars
    /\ UNCHANGED <<xtVars, chVars, whVars, stVars, apiVars, conVars, libVars, atVars>>

AccListenerConfirm ==
    /\ ~Crashed
    /\ BusListenerConfirm
AccPublish ==
    /\ ~Crashed
    /\ BusPublish

NextAccess ==
    \/ AccSubscribeBegin \/ AccSubscribeEnd \/ AccUnsubscribeBegin \/ AccUnsubscribeEnd
    \/ AccDispatchBegin \/ AccDispatchEnd \/ AccFatal
    \/ AccListenerConfirm \/ AccPublish
StartAccess ==
    IdleXt /\ IdleCh /\ IdleWh /\ InitBus /\ IdleSt /\ IdleApi /\ IdleCon /\ IdleLib /\ IdleAcc /\ IdleAt
SpecAccess ==
    StartAccess
    /\ [][NextAccess]_vars

(***************************************************************************)
(* AttachToolToAssistant against one assistant at the remote API: a GET of *)
(* the assistant, the check of its model.toolIds, and a PATCH of the whole  *)
(* configuration with the tool id appended.  The API keeps the list it was  *)
(* sent last.  Each caller runs the three steps; nothing ties a PATCH to    *)
(* the version of the assistant that the GET returned.                      *)
(***************************************************************************)
MaxPatches == 3
ToolIds == {"ta", "tb"}
ErrGetAssistant == "failed to get assistant details"
ErrUpdateAssistant == "failed to update assistant"

\* the GET returns the assistant, or fails (transport, status, decoding)
GetOutcomes == {"ok", "error"}
\* the PATCH is applied and answered 200; fails and is not applied; or is
\* applied with its answer lost on the way back
PatchOutcomes == {"ok", "error", "applied, no answer"}

AtReturn(c, ret) ==
    /\ atRet' = [atRet EXCEPT ![c] = ret]
    /\ atPc' = [atPc EXCEPT ![c] = "idle"]

\* the call: http.NewRequest("GET", ...)
AtCall(c, tool) ==
    /\ atPc[c] = "idle"
    /\ patches < MaxPatches
    /\ atTool' = [atTool EXCEPT ![c] = tool]
    /\ atPc' = [atPc EXCEPT ![c] = "get"]
    /\ atRet' = [atRet EXCEPT ![c] = ""]
    /\ UNCHANGED <<toolIds, atSeen, atOk, patches>>

\* c.httpClient.Do(req), the status check and the decoding of the assistant
AtGet(c) ==
    /\ atPc[c] = "get"
    /\ \E out \in GetOutcomes :
          IF out = "ok"
          THEN /\ atSeen' = [atSeen EXCEPT ![c] = toolIds]
               /\ atPc' = [atPc EXCEPT ![c] = "check"]
               /\ UNCHANGED atRet
          ELSE AtReturn(c, ErrGetAssistant) /\ UNCHANGED atSeen
    /\ UNCHANGED <<toolIds, atTool, atOk, patches>>

\* the search for the tool id: return nil when it is there, else append it
AtCheck(c) ==
    /\ atPc[c] = "check"
    /\ IF Count(atSeen[c], atTool[c]) > 0
       THEN /\ AtReturn(c, "nil")
            /\ atOk' = atOk \cup {atTool[c]}
       ELSE /\ atPc' = [atPc EXCEPT ![c] = "patch"]
            /\ UNCHANGED <<atRet, atOk>>
    /\ UNCHANGED <<toolIds, atTool, atSeen, patches>>

\* the PATCH of the configuration read by the GET, with the id appended
AtPatch(c) ==
    /\ atPc[c] = "patch"
    /\ patches' = patches + 1
    /\ \E out \in PatchOutcomes :
          /\ toolIds' = IF out = "error" THEN toolIds ELSE Append(atSeen[c], atTool[c])
          /\ IF out = "ok"
             THEN AtReturn(c, "nil") /\ atOk' = atOk \cup {atTool[c]}
             ELSE AtReturn(c, ErrUpdateAssistant) /\ UNCHANGED atOk
    /\ UNCHANGED <<atTool, atSeen>>

AttachCall ==
    /\ \E c \in Callers, tool \in ToolIds : AtCall(c, tool)
    /\ UNCHANGED <<xtVars, chVars, whVars, busVars, stVars, apiVars, conVars, libVars, accVars>>
AttachGet ==
    /\ \E c \in Callers : AtGet(c)
    /\ UNCHANGED <<xtVars, chVars, whVars, busVars, stVars, apiVars, conVars, libVars, accVars>>
AttachCheck ==
    /\ \E c \in Callers : AtCheck(c)
    /\ UNCHANGED <<xtVars, chVars, whVars, busVars, stVars, apiVars, conVars, libVars, accVars>>
AttachPatch ==
    /\ \E c \in Callers : AtPatch(c)
    /\ UNCHANGED <<xtVars, chVars, whVars, busVars, stVars, apiVars, conVars, libVars, accVars>>

NextAttach == AttachCall \/ AttachGet \/ AttachCheck \/ AttachPatch

\* the assistant has no tool, a tool nobody will attach, or one of the tools
InitAttach ==
    /\ toolIds \in {<<>>, <<"tx">>, <<"ta">>}
    /\ atPc = [c \in Callers |-> "idle"]
    /\ atTool = [c \in Callers |-> ""]
    /\ atSeen = [c \in Callers |-> <<>>]
    /\ atRet = [c \in Callers |-> ""]
    /\ atOk = {toolIds[i] : i \in 1..Len(toolIds)}
    /\ patches = 0
StartAttach ==
    IdleXt /\ IdleCh /\ IdleWh /\ IdleBus /\ IdleSt /\ IdleApi /\ IdleCon /\ IdleLib /\ IdleAcc /\ InitAttach
SpecAttach ==
    StartAttach
    /\ [][NextAttach]_vars

\* the calls made one after the other: a call begins when the last has returned
OneAtATime == Cardinality({c \in Callers : atPc'[c] # "idle"}) <= 1
SpecAttachSequential ==
    StartAttach
    /\ [][NextAttach /\ OneAtATime]_vars

(***************************************************************************)
(* Event.ToJSON and FromJSON (pkg/events/event.go): json.Marshal of the    *)
(* Event struct and json.Unmarshal into a fresh one.  A Go value carries   *)
(* its dynamic type; a JSON value has only the kinds of JSON.  A number is *)
(* hi * 2^53 + lo, so that the integers a float64 cannot hold are there.   *)
(***************************************************************************)
Num(hi, lo) == [hi |-> hi, lo |-> lo]
Zero == Num(0, 0)

\* a Go value held in an interface{}: k is its dynamic type
GoValue(k, s, b, n, m) == [k |-> k, s |-> s, b |-> b, n |-> n, m |-> m]
GoNil == GoValue("nil", "", FALSE, Zero, {})
GoString(s) == GoValue("string", s, FALSE, Zero, {})
GoBool(b) == GoValue("bool", "", b, Zero, {})
GoInt(n) == GoValue("int", "", FALSE, n, {})
GoFloat(n) == GoValue("float64", "", FALSE, n, {})
\* map[string]interface{}: a set of <<key, value>>
GoMap(m) == GoValue("map", "", FALSE, Zero, m)
\* a struct with json tags, such as CallProcessedEventData: <<json name, value>>
GoStruct(m) == GoValue("struct", "", FALSE, Zero, m)
\* a value encoding/json has no encoding for (a func, a channel)
GoFunc == GoValue("func", "", FALSE, Zero, {})

\* a JSON value on the wire
JsonValue(j, s, b, n, m) == [j |-> j, s |-> s, b |-> b, n |-> n, m |-> m]
JNull == JsonValue("null", "", FALSE, Zero, {})
JString(s) == JsonValue("string", s, FALSE, Zero, {})
JBool(b) == JsonValue("bool", "", b, Zero, {})
JNumber(n) == JsonValue("number", "", FALSE, n, {})
JObject(m) == JsonValue("object", "", FALSE, Zero, m)

\* a string with a byte that is no UTF-8, and what json.Marshal writes for it
sInvalidUtf8 == "caf\\xe9"
sReplaced == "caf\\ufffd"
CoerceUtf8(s) == IF s = sInvalidUtf8 THEN sReplaced ELSE s

\* strconv.ParseFloat(text, 64): the nearest float64, ties to the even mantissa;
\* between 2^53 and 2^54 the float64 values are the even integers
RoundToFloat64(n) ==
    IF n.hi = 0 \/ n.lo % 2 = 0 THEN n
    ELSE IF (n.lo \div 2) % 2 = 0 THEN Num(n.hi, n.lo - 1)
    ELSE Num(n.hi, n.lo + 1)

RECURSIVE Supported(_)
Supported(v) ==
    /\ v.k # "func"
    /\ \A p \in v.m : Supported(p[2])

\* json.Marshal of a value
RECURSIVE MarshalValue(_)
MarshalValue(v) ==
    CASE v.k = "nil" -> JNull
      [] v.k = "string" -> JString(CoerceUtf8(v.s))
      [] v.k = "bool" -> JBool(v.b)
      [] v.k \in {"int", "float64"} -> JNumber(v.n)
      [] OTHER -> JObject({ <<p[1], MarshalValue(p[2])>> : p \in v.m })

\* json.Unmarshal into an interface{}: float64 for numbers,
\* map[string]interface{} for objects
RECURSIVE UnmarshalValue(_)
UnmarshalValue(j) ==
    CASE j.j = "null" -> GoNil
      [] j.j = "string" -> GoString(j.s)
      [] j.j = "bool" -> GoBool(j.b)
      [] j.j = "number" -> GoFloat(RoundToFloat64(j.n))
      [] OTHER -> GoMap({ <<p[1], UnmarshalValue(p[2])>> : p \in j.m })

\* Time.MarshalJSON with the seconds only (time.RFC3339)
MarshalTime_Seconds(t) ==
    [ok |-> t.inRange, sec |-> t.sec, nsec |-> 0,
     zone |-> IF t.loc = "UTC" THEN "Z" ELSE "+02:00"]

\* Time.MarshalJSON: RFC 3339 with nanoseconds and the zone offset; the
\* monotonic clock reading is not written; an error for a year outside 0..9999
MarshalTime(t) ==
    [ok |-> t.inRange, sec |-> t.sec, nsec |-> t.nsec,
     zone |-> IF t.loc = "UTC" THEN "Z" ELSE "+02:00"]

\* Time.UnmarshalJSON: the instant, in UTC for "Z" and in the local zone for
\* its offset, without a monotonic reading
UnmarshalTime(w) ==
    [sec |-> w.sec, nsec |-> w.nsec, mono |-> FALSE,
     loc |-> IF w.zone = "Z" THEN "UTC" ELSE "Local", inRange |-> TRUE]

NoWire == [nothing |-> TRUE]
ZeroTime == [sec |-> 0, nsec |-> 0, mono |-> FALSE, loc |-> "UTC", inRange |-> TRUE]
ZeroEvent ==
    [id |-> "", type |-> "", timestamp |-> ZeroTime, source |-> "",
     data |-> GoNil, metadata |-> GoNil]

\* (e *Event) ToJSON(): json.Marshal(e), one member per struct field
ToJSON(e) ==
    IF ~Supported(e.data) \/ ~Supported(e.metadata) \/ ~MarshalTime(e.timestamp).ok
    THEN [err |-> "json: error calling MarshalJSON or unsupported type", bytes |-> NoWire]
    ELSE [err |-> "",
          bytes |-> [id |-> JString(CoerceUtf8(e.id)),
                     type |-> JString(CoerceUtf8(e.type)),
                     timestamp |-> MarshalTime(e.timestamp),
                     source |-> JString(CoerceUtf8(e.source)),
                     data |-> MarshalValue(e.data),
                     metadata |-> MarshalValue(e.metadata)]]

\* FromJSON(data): json.Unmarshal into a zero Event; Metadata stays a nil map
\* for null and becomes a map for an object
FromJSON(bytes) ==
    IF bytes = NoWire
    THEN [err |-> "unexpected end of JSON input", event |-> ZeroEvent]
    ELSE [err |-> "",
          event |-> [id |-> bytes.id.s, type |-> bytes.type.s,
                     timestamp |-> UnmarshalTime(bytes.timestamp),
                     source |-> bytes.source.s,
                     data |-> UnmarshalValue(bytes.data),
                     metadata |-> UnmarshalValue(bytes.metadata)]]

\* the events of the round trip: payloads as the examples and the library make
\* them (a map with a string and an int, a struct, nil), and ones at the edges
Payloads ==
    { GoNil, GoString("hello"), GoBool(TRUE), GoInt(Num(0, 3)), GoFloat(Num(0, 3)),
      GoInt(Num(1, 1)), GoFloat(Num(1, 2)), GoFunc,
      GoMap({<<"message", GoString("hello")>>}),
      GoMap({<<"message", GoString("hello")>>, <<"number", GoInt(Num(0, 3))>>}),
      GoMap({<<"number", GoFloat(Num(0, 3))>>}),
      GoStruct({<<"call_id", GoString("hello")>>}) }
MetadataMaps ==
    { GoNil, GoMap({}), GoMap({<<"k", GoString("hello")>>}), GoMap({<<"n", GoInt(Num(0, 3))>>}) }
Timestamps ==
    { [sec |-> 1, nsec |-> 0, mono |-> FALSE, loc |-> "UTC", inRange |-> TRUE],
      [sec |-> 1, nsec |-> 5, mono |-> TRUE, loc |-> "Local", inRange |-> TRUE],
      [sec |-> 2, nsec |-> 5, mono |-> FALSE, loc |-> "UTC", inRange |-> FALSE] }
RoundTripEvents ==
    [ id : {"evt_1", sInvalidUtf8}, type : {"test.event"}, timestamp : Timestamps,
      source : {"test-source", ""}, data : Payloads, metadata : MetadataMaps ]

InitEvent ==
    /\ xtCall \in { [kind |-> "event", event |-> e] : e \in RoundTripEvents }
    /\ xtResult = <<>> /\ xtPc = "ready"

\* jsonData, err := event.ToJSON(); deserializedEvent, err := events.FromJSON(jsonData)
XtRoundTrip ==
    /\ xtPc = "ready"
    /\ LET out == ToJSON(xtCall.event)
           back == FromJSON(out.bytes)
       IN  xtResult' = [toErr |-> out.err, bytes |-> out.bytes,
                        fromErr |-> back.err, event |-> back.event]
    /\ xtPc' = "done"
    /\ UNCHANGED xtCall
    /\ UNCHANGED <<chVars, whVars, busVars, stVars, apiVars, conVars, libVars, accVars, atVars>>

NextEvent == XtRoundTrip
StartEvent == InitEvent /\ IdleCh /\ IdleWh /\ IdleBus /\ IdleSt /\ IdleApi /\ IdleCon /\ IdleLib /\ IdleAcc /\ IdleAt
SpecEvent == StartEvent /\ [][NextEvent]_vars

(***************************************************************************)
(* Properties.                                                             *)
(***************************************************************************)
ListenersOf(t) == { i \in 1..Len(listeners) : listeners[i].type = t }

\* nothing of type t is queued at a listener or waiting in a handler goroutine
Quiescent(t) ==
    /\ \A i \in ListenersOf(t) : listeners[i].queue = <<>>
    /\ \A h \in HandlerIds, e \in Events : e.type = t => inflight[h][e.id] = 0

\* C1: with h1 and h2 each subscribed once to a type and their subscriptions
\* active before anything is published, every Publish of an event of that type
\* gives exactly one Handle call on h1 and one on h2: once everything is
\* delivered, each handler has been called as often as the event was published.
C1_ExactlyOncePerPublish ==
    \A t \in EventTypes :
        (SetupActive(t) /\ ~early[t] /\ ~cancelled /\ Cardinality(ListenersOf(t)) = 2
           /\ Quiescent(t))
        => \A h \in HandlerIds, e \in Events : e.type = t => calls[h][e.id] = pubs[e.id]

WebhookEndpoints == {"/webhooks/vapi", "/webhooks/voice"}

\* processWebhookEvent ran on the body as sent, without a processor, with a bus
C2_Case ==
    /\ whCount = 1 /\ whReq.op \in WebhookEndpoints /\ whRes.reached
    /\ whReq.read = "full"
    /\ whReq.doc.json = "object" /\ whReq.doc.message.kind = "object"
    /\ ~whCfg.processor /\ whCfg.eventBus

RawEnvelopeEvent == NewEvent(EventWebhookReceived, "vapi-webhook", whReq.doc)

\* C2 (as stated): a message of any type other than "end-of-call-report", no
\* processor, a bus: exactly one vapi.webhook.received event carrying the envelope.
C2_OtherTypesRepublished ==
    (C2_Case /\ whReq.doc.message.type # Field("string", EndOfCallReport))
    => whRes.published = <<RawEnvelopeEvent>>

\* C2 (amended): with no processor and a bus, the raw envelope is published once as
\* vapi.webhook.received exactly when message.type is "end-of-call-report"; for
\* any other type nothing is published and the result is nil.
C2_RawEnvelopeOnlyForEndOfCall ==
    C2_Case =>
        IF whReq.doc.message.type = Field("string", EndOfCallReport)
        THEN whRes.published = <<RawEnvelopeEvent>>
        ELSE whRes.published = <<>> /\ whRes.err = "" /\ whRes.status = 200

C2_Witness ==
    /\ C2_Case
    /\ whReq.doc.message.type = Field("string", EndOfCallReport)
    /\ whRes.published = <<RawEnvelopeEvent>>

\* the sources of a transcript a Call record can offer
HasAnalysis(call) == call.analysis.present /\ Len(call.analysis.transcript) > 0
HasStructuredTop(call) == call.transcript.kind = "messages" /\ Len(call.transcript.msgs) > 0
HasRawTop(call) == call.transcript.kind = "string" /\ call.transcript.str # <<>>
HasStructured(a) == Len(a.transcript) > 0
HasRawMarked(a) == a.content # <<>> /\ HasMarkers(a.content)
NoTopSource(call) ==
    /\ ~HasAnalysis(call) /\ ~HasStructuredTop(call) /\ ~HasRawTop(call)
    /\ call.messages = <<>> /\ call.conversation = <<>>

\* the artifacts that offer a structured transcript or marked raw content
Usable(arts) == { i \in 1..Len(arts) : HasStructured(arts[i]) \/ HasRawMarked(arts[i]) }
FirstUsable(arts) == CHOOSE i \in Usable(arts) : \A j \in Usable(arts) : i <= j
OfArtifact(a) == IF HasStructured(a) THEN a.transcript ELSE parseTranscriptContent(a.content)

\* C3 (as stated): sources 1 to 5 empty and some artifact with a structured
\* transcript: the result is the structured transcript of an artifact, never the
\* raw content of another one, whatever the artifacts' order.
C3_StructuredArtifactBeatsRaw ==
    (xtPc = "done" /\ NoTopSource(xtCall)
       /\ \E i \in 1..Len(xtCall.artifacts) : HasStructured(xtCall.artifacts[i]))
    => \E i \in 1..Len(xtCall.artifacts) :
          HasStructured(xtCall.artifacts[i]) /\ xtResult = xtCall.artifacts[i].transcript

\* C3 (amended): ExtractTranscript returns the first non-empty source in the
\* order analysis transcript, structured top-level transcript, raw-text
\* top-level transcript (parsed), messages, conversation, and then the first
\* artifact in list order that has a structured transcript or raw content with
\* markers, its structured transcript preferred to its own raw content only;
\* an empty list when no source offers anything.
C3_Precedence ==
    xtPc = "done" =>
        xtResult =
            IF HasAnalysis(xtCall) THEN xtCall.analysis.transcript
            ELSE IF HasStructuredTop(xtCall) THEN xtCall.transcript.msgs
            ELSE IF HasRawTop(xtCall) THEN parseTranscriptContent(xtCall.transcript.str)
            ELSE IF xtCall.messages # <<>> THEN xtCall.messages
            ELSE IF xtCall.conversation # <<>> THEN xtCall.conversation
            ELSE IF Usable(xtCall.artifacts) # {}
            THEN OfArtifact(xtCall.artifacts[FirstUsable(xtCall.artifacts)])
            ELSE <<>>

\* an earlier artifact's raw "User: ok" taken although a later artifact has a
\* structured transcript
C3_Witness ==
    /\ xtPc = "done" /\ NoTopSource(xtCall)
    /\ xtCall.artifacts = << [transcript |-> <<>>, content |-> txtUser],
                             [transcript |-> mArtifactA, content |-> <<>>] >>
    /\ xtResult = <<Msg("user", <<"o", "k">>)>>

NoTarget(req) == ~req.assistantId /\ ~req.assistant /\ ~req.sessionId /\ ~req.previousChatId
CharLen(s) == Len(s)
NameTooLong(req) == req.name.set /\ CharLen(req.name.val) > NameLimit

\* a non-nil request breaking one of the ChatRequest invariants
ViolatesInvariant(req) ==
    /\ ~req.isNil
    /\ \/ req.input = "nil"
       \/ NoTarget(req)
       \/ req.sessionId /\ req.previousChatId
       \/ NameTooLong(req)

\* C4: CreateChat and CreateStreamingChat send no HTTP request for a request
\* that violates a ChatRequest invariant (missing input, no target, both
\* sessionId and previousChatId, a name longer than 40 characters).
C4_NoHttpOnInvalid ==
    (chOp \in {"CreateChat", "CreateStreamingChat"} /\ ViolatesInvariant(chReq))
    => chHttp = 0

\* C5: both validators return nil for every request that keeps the four rules,
\* the name's length counted in characters; for a request breaking a rule the
\* error names a rule the request breaks; and the two validators agree.
C5_ValidatorsFollowRules ==
    (chOp \in {"ValidateRequest", "BuilderValidate"} /\ ~chReq.isNil)
    => /\ ~ViolatesInvariant(chReq) => chErr = ""
       /\ ViolatesInvariant(chReq) => chErr \in {ErrInput, ErrNoTarget, ErrExclusive, ErrName}
       /\ chErr = ErrInput => chReq.input = "nil"
       /\ chErr = ErrNoTarget => NoTarget(chReq)
       /\ chErr = ErrExclusive => (chReq.sessionId /\ chReq.previousChatId)
       /\ chErr = ErrName => NameTooLong(chReq)
       /\ ValidateRequest(chReq) = BuilderValidate(chReq)

\* ProcessEndOfCallReport ran on the message of the request
ProcessorRan == whCount = 1 /\ whRes.procCalls = 1
ReportCall == whReq.doc.message.call
LacksIds ==
    \/ ReportCall.kind # "object"
    \/ ReportCall.id.kind # "string"
    \/ ReportCall.assistantId.kind # "string"

\* C6: a report without the call object, or without call.id or call.assistantId
\* as strings, makes ProcessEndOfCallReport return an error, with no GetCall and
\* no event published (and the webhook caller gets a 500).
C6_MissingIdsRejected ==
    (ProcessorRan /\ LacksIds)
    => /\ whRes.err # ""
       /\ whRes.getCalls = 0
       /\ whRes.published = <<>>
       /\ whReq.op \in WebhookEndpoints => whRes.status = 500

C6_Witness ==
    /\ ProcessorRan /\ ReportCall.kind = "object"
    /\ ReportCall.id.kind = "string" /\ ReportCall.assistantId.kind = "absent"
    /\ whRes.err = "no assistant ID in end-of-call-report"
    /\ whRes.getCalls = 0

\* whether the processor was given an event bus (p.eventBus != nil)
ProcessorBus == whCfg.procEventBus

CompletedEvent ==
    NewEvent(EventCallCompleted, "vapi-processor",
             [id |-> "processed_" \o ReportCall.id.val,
              call_id |-> ReportCall.id.val,
              assistant_id |-> ReportCall.assistantId.val,
              transcript |-> ExtractTranscript(whReq.got.call),
              duration |-> whReq.got.call.duration,
              status |-> whReq.got.call.status])

\* C7 (as stated): with call.id and call.assistantId present, a GetCall that
\* succeeds is followed by exactly one vapi.call.completed event.
C7_AlwaysPublishesOnSuccess ==
    (ProcessorRan /\ ~LacksIds /\ whReq.got.ok)
    => whRes.published = <<CompletedEvent>>

\* C7 (amended): with call.id and call.assistantId present, GetCall is called
\* once; its failure is returned and nothing is published; on success a processor
\* that has an event bus publishes exactly one vapi.call.completed event with the
\* ProcessedCall "processed_<callID>", and returns an error exactly when that
\* Publish fails, without publishing again; a processor without a bus publishes
\* nothing and returns nil.
C7_FetchOncePublishOnce ==
    (ProcessorRan /\ ~LacksIds)
    => /\ whRes.getCalls = 1
       /\ ~whReq.got.ok => (whRes.err # "" /\ whRes.published = <<>>)
       /\ (whReq.got.ok /\ ProcessorBus)
            => /\ whRes.published = <<CompletedEvent>>
               /\ whRes.err = "" <=> whReq.pubOk
       /\ (whReq.got.ok /\ ~ProcessorBus) => (whRes.published = <<>> /\ whRes.err = "")

C7_Witness ==
    /\ ProcessorRan /\ ~LacksIds /\ whReq.got.ok /\ ProcessorBus /\ ~whReq.pubOk
    /\ whRes.published = <<CompletedEvent>>
    /\ whRes.err = "failed to publish call-completed event"

\* C8: a POST to either webhook endpoint, its body an end-of-call-report that
\* arrives whole under its Content-Length, with a processor configured, is
\* handed to the processor exactly once, answered 500 when the processor fails
\* and 200 "OK" when it returns nil.
C8_DelegatedOnce ==
    (/\ whCount = 1 /\ whReq.op \in WebhookEndpoints /\ whReq.method = "POST"
     /\ ~whReq.chunked /\ whReq.read \in {"full", "fullEOF"}
     /\ whReq.doc.json = "object" /\ whReq.doc.message.kind = "object"
     /\ whReq.doc.message.type = Field("string", EndOfCallReport)
     /\ whCfg.processor)
    => /\ whRes.procCalls = 1
       /\ whRes.err # "" => whRes.status = 500
       /\ whRes.err = "" => (whRes.status = 200 /\ whRes.text = "OK")

\* everything the reader has put on the response channel so far
Emitted == received \o responseChan
IsPrefix(a, b) == Len(a) <= Len(b) /\ a = SubSeq(b, 1, Len(a))
ReaderStopped == stPc \in {"closeErr", "closeResp", "done"}
StreamEnded == errsSent # <<>> \/ \E i \in 1..Len(Emitted) : Emitted[i].done

ChannelsClosed == respClosed /\ errClosed
BlockedOnFull == stPc = "select" /\ Len(responseChan) = ChanCap

\* C10: once the context is cancelled, or the stream has ended or failed, the
\* reader terminates with both channels closed, also from a send blocked on the
\* full response channel that nobody drains; and while the channel holds 100
\* responses, nobody receives and nothing is cancelled, the reader stays in its
\* send with both channels open.
C10_ReaderTerminates ==
    /\ (stPc # "idle" /\ ctxDone) ~> (stPc = "done" /\ ChannelsClosed)
    /\ ReaderStopped ~> (stPc = "done" /\ ChannelsClosed)
    /\ [][(BlockedOnFull /\ ~ctxDone /\ ~ctxDone' /\ responseChan' = responseChan)
            => (BlockedOnFull' /\ ~respClosed' /\ ~errClosed')]_vars

\* the reader ended by cancellation out of a send blocked on the full channel
C10_Witness ==
    /\ stPc = "done" /\ ChannelsClosed /\ ctxDone
    /\ Len(responseChan) = ChanCap
    /\ stPending # NoResponse /\ Len(served) = ChanCap + 1

AllListenersDone == \A i \in 1..Len(listeners) : listeners[i].state = "done"

\* listener i takes a message from its channel in this step
Took(i) ==
    /\ Len(listeners') = Len(listeners)
    /\ listeners[i].state = "active" /\ listeners[i].queue # <<>>
    /\ listeners'[i].state = "active" /\ listeners'[i].queue = Tail(listeners[i].queue)

\* C12: once Stop is called the broker connection is closed and every listener
\* goroutine, waiting for its confirmation or in its loop, terminates in the end;
\* a handler invocation is only ever started by a listener that is running and
\* takes a message, never by a terminated one, whose channel is gone.
C12_StopEndsListeners ==
    /\ cancelled ~> AllListenersDone
    /\ [](cancelled => closed)
    /\ [](\A i \in 1..Len(listeners) : listeners[i].state = "done" => listeners[i].queue = <<>>)
    /\ [][(\E h \in HandlerIds, e \in EventIds : inflight'[h][e] > inflight[h][e])
            => \E i \in 1..Len(listeners) : Took(i)]_vars

\* the bus is stopped and both listeners have terminated, after a handler ran
C12_Witness ==
    /\ cancelled /\ closed
    /\ Len(listeners) = MaxSubscribes
    /\ AllListenersDone
    /\ \E h \in DOMAIN calls, e \in EventIds : calls[h][e] > 0

\* the type of the event with this id
TypeOfEvent(id) == (CHOOSE e \in Events : e.id = id).type

\* new is old without its first entry equal to h
FirstRemoved(old, new, h) ==
    \E k \in 1..Len(old) :
        /\ old[k] = h /\ \A j \in 1..(k - 1) : old[j] # h
        /\ new = RemoveAt(old, k)

\* C11: Unsubscribe(T, h) takes exactly the first entry of h out of T's list and
\* leaves the other entries in their order, the other types' lists and every
\* listener alone; a message a listener takes starts an invocation of a handler
\* only if the handler is in the list then, so never of an unsubscribed one,
\* and starts one per entry of every handler that is in the list; a listener
\* leaves its loop only when the bus is stopped, whatever the list holds.
C11_UnsubscribeRemovesOnlyThatHandler ==
    /\ [][handlers' # handlers =>
            /\ listeners' = listeners /\ inflight' = inflight
            /\ \E t \in EventTypes, h \in DOMAIN calls :
                  /\ FirstRemoved(handlers[t], handlers'[t], h)
                  /\ \A t2 \in EventTypes \ {t} : handlers'[t2] = handlers[t2]]_vars
    /\ [][\A h \in DOMAIN calls, e \in EventIds :
            inflight'[h][e] > inflight[h][e] => Count(handlers[TypeOfEvent(e)], h) > 0]_vars
    /\ [][\A i \in 1..Len(listeners) :
            (Took(i) /\ Head(listeners[i].queue).valid)
            => \A h \in DOMAIN calls :
                  inflight'[h][Head(listeners[i].queue).id]
                    = inflight[h][Head(listeners[i].queue).id]
                      + Count(handlers[listeners[i].type], h)]_vars
    /\ [][\A i \in 1..Len(listeners) :
            (listeners[i].state = "active" /\ listeners'[i].state = "done") => cancelled]_vars

\* h2 is no longer registered for t1 and was not invoked for the event that
\* h1 and h3, still registered in this order, have handled
C11_Witness ==
    /\ handlers["t1"] = <<"h1", "h3">>
    /\ "h2" \in DOMAIN calls
    /\ pubs["e1"] > 0
    /\ calls["h2"]["e1"] = 0 /\ inflight["h2"]["e1"] = 0
    /\ calls["h1"]["e1"] > 0 /\ calls["h3"]["e1"] > 0
    /\ listeners[3].state = "active"

\* C13: an event type never has more than one listener, whatever the number of
\* Subscribe calls made for it.
C13_OneListenerPerType ==
    \A t \in EventTypes : Cardinality(ListenersOf(t)) <= 1

\* listener i discards a payload in this step
Discards(i) ==
    /\ Len(listeners') = Len(listeners)
    /\ listeners'[i].dropped = listeners[i].dropped + 1

\* C20: a listener that takes a payload which is no Event starts no handler
\* and stays in its loop with the rest of its channel; it leaves the loop only
\* when the bus is stopped, and every event it takes after such a payload
\* still starts one invocation per registered handler entry.
C20_BadPayloadSkipped ==
    /\ [][\A i \in 1..Len(listeners) :
            Discards(i) =>
                /\ ~Head(listeners[i].queue).valid
                /\ inflight' = inflight /\ calls' = calls /\ handlers' = handlers
                /\ listeners'[i].state = "active"
                /\ listeners'[i].queue = Tail(listeners[i].queue)]_vars
    /\ [][\A i \in 1..Len(listeners) :
            (listeners[i].state = "active" /\ listeners[i].queue # <<>>
             /\ ~Head(listeners[i].queue).valid
             /\ Len(listeners'[i].queue) < Len(listeners[i].queue))
            => (Discards(i) \/ (cancelled /\ listeners'[i].state = "done"))]_vars
    /\ [][\A i \in 1..Len(listeners) :
            (listeners[i].dropped > 0 /\ Took(i) /\ Head(listeners[i].queue).valid)
            => \A h \in DOMAIN calls :
                  inflight'[h][Head(listeners[i].queue).id]
                    = inflight[h][Head(listeners[i].queue).id]
                      + Count(handlers[listeners[i].type], h)]_vars
    /\ [](\A i \in 1..Len(listeners) :
            (listeners[i].state = "done" /\ listeners[i].dropped > 0) => cancelled)

\* the only listener of t1 discarded a payload, then took the one published e1,
\* and h1 handled it
C20_Witness ==
    /\ Len(listeners) = 1 /\ listeners[1].type = "t1"
    /\ listeners[1].state = "active"
    /\ listeners[1].dropped = 1 /\ listeners[1].goodAfter
    /\ pubs["e1"] = 1
    /\ calls["h1"]["e1"] = 1

LowerLetters == <<"a", "b", "c", "e", "i", "l", "n", "o", "r", "s", "t", "u">>
UpperLetters == <<"A", "B", "C", "E", "I", "L", "N", "O", "R", "S", "T", "U">>
UpperChar(c) ==
    IF \E k \in 1..Len(LowerLetters) : LowerLetters[k] = c
    THEN UpperLetters[CHOOSE k \in 1..Len(LowerLetters) : LowerLetters[k] = c]
    ELSE c
ToUpper(str) == [k \in 1..Len(str) |-> UpperChar(str[k])]

\* the line opens an assistant turn, a user turn: with the indicators as the
\* parser spells them, or in any letter case
AssistantLine(l, anyCase) ==
    IF anyCase
    THEN HasPrefix(ToUpper(l), sAI) \/ HasPrefix(ToUpper(l), sBOT) \/ HasPrefix(ToUpper(l), sASSISTANT)
    ELSE HasPrefix(l, sAI) \/ HasPrefix(l, sBOT) \/ HasPrefix(l, sASSISTANT)
UserLine(l, anyCase) ==
    IF anyCase
    THEN HasPrefix(ToUpper(l), sUSER) \/ HasPrefix(ToUpper(l), sCLIENT)
    ELSE HasPrefix(l, sUser) \/ HasPrefix(l, sUSER) \/ HasPrefix(l, sCLIENT)
SpeakerLine(l, anyCase) == AssistantLine(l, anyCase) \/ UserLine(l, anyCase)

NonBlank(l) == l # <<>>

\* the lines of the text, without the first one when skipFirst, trimmed, blank ones left out
KeptLines(content, skipFirst) ==
    LET lines == Split(TrimSpace(content), "\n")
        from == IF skipFirst THEN 2 ELSE 1
    IN  SelectSeq([k \in 1..(Len(lines) - from + 1) |-> TrimSpace(lines[k + from - 1])], NonBlank)

FirstLine(content) == Split(TrimSpace(content), "\n")[1]

RECURSIVE JoinSpaced(_)
JoinSpaced(ls) ==
    IF ls = <<>> THEN <<>>
    ELSE IF Len(ls) = 1 THEN ls[1]
    ELSE ls[1] \o <<" ">> \o JoinSpaced(Tail(ls))

\* the turn that the speaker line at index k opens: its role, and the text after
\* its indicator joined with the lines up to the next speaker line
TurnAt(ls, k, anyCase) ==
    LET later == { j \in (k + 1)..Len(ls) : SpeakerLine(ls[j], anyCase) }
        stop == IF later = {} THEN Len(ls) + 1
                ELSE CHOOSE j \in later : \A j2 \in later : j <= j2
    IN  [role |-> IF AssistantLine(ls[k], anyCase) THEN "assistant" ELSE "user",
         text |-> JoinSpaced(SelectSeq(<<AfterSpeaker(ls[k])>> \o SubSeq(ls, k + 1, stop - 1),
                                       NonBlank))]

HasText(turn) == turn.text # <<>>

\* one turn per speaker line that gathers any text, in the order of the lines
TurnsOf(ls, anyCase) ==
    SelectSeq([k \in 1..Len(ls) |->
                  IF SpeakerLine(ls[k], anyCase) THEN TurnAt(ls, k, anyCase)
                  ELSE [role |-> "", text |-> <<>>]],
              HasText)

\* a first line that names the transcript and is no speaker line
BannerLine(l) == Contains(l, sTranscript) /\ ~SpeakerLine(TrimSpace(l), FALSE)

\* C14: the parser skips the first line exactly when it is a "Transcript" banner
\* line, ignores blank lines, drops what precedes the first speaker line, opens
\* a turn at every speaker line with the text after its indicator, appends the
\* other lines to the open turn, and emits each turn at the next speaker line
\* or at the end of the text.
C14_ParsesTurns ==
    xtPc = "done" =>
        xtResult = TurnsOf(KeptLines(xtCall.content, BannerLine(FirstLine(xtCall.content))),
                           FALSE)

\* C15: a turn is opened by the lines that start with AI, BOT, ASSISTANT, User,
\* USER or CLIENT in exactly this spelling; a line that starts with an indicator
\* in another letter case is text of the open turn, or dropped when none is open.
C15_ExactCaseMarkers ==
    xtPc = "done" =>
        xtResult = TurnsOf(KeptLines(xtCall.content,
                                     Contains(FirstLine(xtCall.content), sTranscript)),
                           FALSE)

\* C15 as stated: speaker indicators in any letter case open a turn
C15_AnyCaseMarkers ==
    xtPc = "done" =>
        xtResult = TurnsOf(KeptLines(xtCall.content,
                                     Contains(FirstLine(xtCall.content), sTranscript)),
                           TRUE)

\* "AI: Hello there", then "user: u": one assistant turn that holds both lines
C15_Witness ==
    /\ xtPc = "done"
    /\ xtCall.content = JoinLines(<<lAI, luser>>)
    /\ xtResult = <<[role |-> "assistant", text |-> SubSeq(lAI, 5, Len(lAI)) \o <<" ">> \o luser]>>

EmptyInput(req) == ~req.isNil /\ req.input \in {"emptyString", "emptyList"}
NilInput(req) == ~req.isNil /\ req.input = "nil"
TargetsAccepted(req) == ~NoTarget(req) /\ ~(req.sessionId /\ req.previousChatId)
\* the reader goroutine of CreateStreamingChat is past its checks
StreamChecked == chOp = "CreateStreamingChat" /\ stPc \notin {"idle", "start"}
StreamSent(err) == \E k \in 1..Len(errsSent) : errsSent[k] = err

\* C16: "input is required" is the answer to a nil input and to no other: the
\* validators return it, and CreateChat and CreateStreamingChat report it without
\* sending an HTTP request, exactly when the input is nil; a request whose input
\* is an empty string or an empty message list passes the input check, and is
\* sent when its identifying fields are accepted.
C16_OnlyNilInputRejected ==
    /\ chOp \in {"ValidateRequest", "BuilderValidate", "CreateChat"}
         => /\ chErr = ErrInput <=> NilInput(chReq)
            /\ NilInput(chReq) => chHttp = 0
    /\ StreamChecked
         => /\ StreamSent(ErrInput) <=> NilInput(chReq)
            /\ NilInput(chReq) => chHttp = 0
    /\ (chOp = "CreateChat" /\ EmptyInput(chReq) /\ TargetsAccepted(chReq)) => chHttp = 1
    /\ (StreamChecked /\ stPc # "do" /\ EmptyInput(chReq) /\ TargetsAccepted(chReq)) => chHttp = 1

\* C16 as stated: an empty string or an empty message list is rejected by the
\* validators and by CreateChat and CreateStreamingChat before any network call
C16_EmptyInputRejected ==
    /\ (chOp \in {"ValidateRequest", "BuilderValidate", "CreateChat"} /\ EmptyInput(chReq))
         => chErr # "" /\ chHttp = 0
    /\ (StreamChecked /\ EmptyInput(chReq)) => errsSent # <<>> /\ chHttp = 0

\* CreateChat with Input: "" and an assistant id was sent and answered
C16_Witness ==
    /\ chOp = "CreateChat"
    /\ chReq.input = "emptyString" /\ chReq.assistantId
    /\ chHttp = 1 /\ chErr = ""

SetTargets(req) ==
    { f \in {"assistantId", "assistant", "sessionId", "previousChatId"} : req[f] }

\* C17: the validators ask for at least one identifying field and refuse only
\* sessionId together with previousChatId: with an input present, the target
\* error is returned exactly when no field is set, the exclusivity error exactly
\* when sessionId and previousChatId are both set, and any other combination of
\* one to three fields passes when the name fits.
C17_AtLeastOneTarget ==
    (chOp \in {"ValidateRequest", "BuilderValidate"} /\ ~chReq.isNil /\ chReq.input # "nil")
    => /\ chErr = ErrNoTarget <=> SetTargets(chReq) = {}
       /\ chErr = ErrExclusive <=> {"sessionId", "previousChatId"} \subseteq SetTargets(chReq)
       /\ (TargetsAccepted(chReq) /\ ~(chReq.name.set /\ GoLen(chReq.name.val) > NameLimit))
            => chErr = ""

\* C17 as stated: a request with two or more identifying fields is rejected
C17_ExactlyOneTarget ==
    (chOp \in {"ValidateRequest", "BuilderValidate"} /\ ~chReq.isNil
     /\ Cardinality(SetTargets(chReq)) > 1)
    => chErr # ""

\* ValidateRequest accepted a request with both assistantId and sessionId
C17_Witness ==
    /\ chOp = "ValidateRequest"
    /\ SetTargets(chReq) = {"assistantId", "sessionId"}
    /\ chReq.input = "text"
    /\ chErr = ""

VoiceOps ==
    {"ListAssistants", "GetAssistant", "UpdateAssistant", "ListCalls", "GetCall",
     "UploadFile", "CreateQueryTool", "AttachToolToAssistant"}
ChatOps == {"CreateChat", "CreateStreamingChat", "CreateSession"}

ApiReturned == apiCall.op \in ApiOps /\ apiCall.done
\* the answer to the last request the operation made
LastAnswer == apiCall.outs[apiRes.http]
Outside2xx(o) == o.kind = "response" /\ (o.status < 200 \/ o.status > 299)

\* C18: a voice operation returns, for an answer with a status outside 200-299,
\* an error whose message holds what could be read of the body, and no result,
\* and makes no further request; a chat operation does so for a status of 400
\* or more (CreateChat and CreateSession only when the body could be read to its
\* end, else the read error), and for a status from 300 to 399 it reports no API
\* error: it parses the body as for a 200 and returns the result when it parses.
C18_StatusErrors ==
    ApiReturned =>
        /\ apiRes.http >= 1
        /\ \A k \in 1..(apiRes.http - 1) : ~Outside2xx(apiCall.outs[k])
        /\ (apiCall.op \in VoiceOps /\ Outside2xx(LastAnswer))
             => /\ apiRes.err \notin {"", "transport", "decode"}
                /\ ~apiRes.result
                /\ apiRes.body = Carried(LastAnswer)
        /\ (apiCall.op \in ChatOps /\ LastAnswer.kind = "response" /\ LastAnswer.status >= 400)
             => /\ ~apiRes.result
                /\ IF LastAnswer.readOk \/ apiCall.op = "CreateStreamingChat"
                   THEN apiRes.err = "API error" /\ apiRes.body = Carried(LastAnswer)
                   ELSE apiRes.err = "failed to read response body" /\ apiRes.body = "none"
        /\ (apiCall.op \in ChatOps /\ Outside2xx(LastAnswer) /\ LastAnswer.status < 400)
             => /\ apiRes.err # "API error" /\ apiRes.body = "none"
                /\ (LastAnswer.readOk /\ LastAnswer.body = "json") => (apiRes.err = "" /\ apiRes.result)
                /\ apiCall.op = "CreateStreamingChat" => (apiRes.err = "" /\ apiRes.result)

\* C18 as stated: every operation returns an error with the body and no result
\* for every answer with a status outside 200-299
C18_Non2xxIsError ==
    (ApiReturned /\ apiRes.http >= 1 /\ Outside2xx(LastAnswer))
    => /\ apiRes.err # "" /\ ~apiRes.result
       /\ LastAnswer.readOk => apiRes.body = "full"

\* CreateChat answered 302 with a JSON body returned a ChatResponse and no error
C18_Witness ==
    /\ ApiReturned /\ apiCall.op = "CreateChat"
    /\ apiCall.outs[1] = [kind |-> "response", status |-> 302, body |-> "json", readOk |-> TRUE]
    /\ apiRes.err = "" /\ apiRes.result

\* processWebhookEvent ran on the whole body of the request
ProcessedWholeBody == whCount = 1 /\ whRes.reached /\ whReq.read = "full"
\* the body is JSON and has no message object
NoMessageObject ==
    \/ whReq.doc.json \in {"null", "array"}
    \/ whReq.doc.json = "object" /\ whReq.doc.message.kind # "object"
NothingDownstream == whRes.procCalls = 0 /\ whRes.getCalls = 0 /\ whRes.published = <<>>

\* C19: processWebhookEvent, run on a body that is a JSON object (or null)
\* without a message object, returns nil, the answer is 200, the processor is
\* not invoked and nothing is published, whatever is configured; run on a JSON
\* body that is not an object, an array for one, it returns the parse error and
\* the answer is 500, again with the processor not invoked and nothing published.
C19_NoMessageNoAction ==
    (ProcessedWholeBody /\ NoMessageObject)
    => /\ NothingDownstream
       /\ IF whReq.doc.json = "array"
          THEN whRes.err = "failed to parse webhook payload" /\ whRes.status = 500
          ELSE whRes.err = "" /\ whRes.status = 200

\* C19 as stated: every valid JSON body without a message object is accepted
C19_AnyJsonAccepted ==
    (ProcessedWholeBody /\ NoMessageObject)
    => (NothingDownstream /\ whRes.err = "" /\ whRes.status = 200)

\* a JSON object without message, with processor and bus configured: 200, nothing done
C19_Witness ==
    /\ ProcessedWholeBody
    /\ whReq.doc.json = "object" /\ whReq.doc.message.kind = "absent"
    /\ whCfg.processor /\ whCfg.eventBus /\ whCfg.procEventBus
    /\ whRes.status = 200 /\ NothingDownstream

(***************************************************************************)
(* ExtractTranscript: what each of the seven sources would yield.          *)
(***************************************************************************)
\* the turns a top-level raw-text transcript parses to
RawTopTurns(call) ==
    IF HasRawTop(call) THEN parseTranscriptContent(call.transcript.str) ELSE <<>>

\* the turns one artifact can offer, structured first and marked content second
ArtifactTurns(a) ==
    IF HasStructured(a) THEN a.transcript
    ELSE IF HasRawMarked(a) THEN parseTranscriptContent(a.content)
    ELSE <<>>

\* some source of the call yields at least one turn
SomeSourceYields(call) ==
    \/ HasAnalysis(call)
    \/ RawTopTurns(call) # <<>>
    \/ HasStructuredTop(call)
    \/ call.messages # <<>>
    \/ call.conversation # <<>>
    \/ \E i \in 1..Len(call.artifacts) : ArtifactTurns(call.artifacts[i]) # <<>>

\* C26: ExtractTranscript returns an empty transcript only when none of the
\* sources yields a turn; a raw-text transcript or a marked artifact content
\* that parses to zero turns falls through to the next source.
C26_EmptyOnlyWhenNoSourceYields ==
    (xtPc = "done" /\ xtResult = <<>>) => ~SomeSourceYields(xtCall)

\* C26 (the case against it): a raw-text transcript "hello" parses to zero
\* turns, the call has a non-empty messages list, yet the result is empty.
C26_RawTopHidesMessages ==
    /\ xtPc = "done"
    /\ xtCall.transcript = [kind |-> "string", str |-> txtPlain, msgs |-> <<>>]
    /\ ~HasAnalysis(xtCall)
    /\ xtCall.messages = mMessages
    /\ xtResult = <<>>

\* a Publish of e is taken while a handler is registered for e's type
PublishedToSubscribed(e) ==
    pubs'[e.id] > pubs[e.id] /\ handlers[e.type] # <<>>

\* a listener of e's type gets the broker's copy of the payload
CopyQueued(e) ==
    \E i \in 1..Len(listeners) :
        /\ listeners[i].type = e.type
        /\ Len(listeners'[i].queue) > Len(listeners[i].queue)

\* C27: once Subscribe(T, h) has returned nil on a connected, non-stopped bus,
\* every event of type T published from then on is delivered to h: each such
\* Publish puts the payload before a listener of T, with no window of loss.
C27_NoLossAfterSubscribe ==
    [][\A e \in Events : PublishedToSubscribed(e) => CopyQueued(e)]_vars

\* the reader has sent an error that nobody has taken from errorChan
ErrorUnread == errsSent # <<>> /\ errorChan # <<>>

\* the reader sends its error before it closes either channel
ErrorSentBeforeClose ==
    [][errsSent' # errsSent => (~errClosed /\ ~respClosed /\ ~errClosed' /\ ~respClosed')]_vars

\* C28: whenever a streaming chat fails, the error is on the error channel
\* before either channel is closed, and a caller running the documented
\* select loop observes it before it treats the stream as completed: the loop
\* never returns through the closed response channel while an error is unread.
C28_ErrorSeenBeforeCompleted ==
    consumer = "completed" => ~ErrorUnread

\* C28 (the case against it): the request failed its checks, both channels are
\* closed with the error still buffered, and the loop has returned as completed.
C28_CompletedWithErrorUnread ==
    /\ consumer = "completed" /\ stPc = "done"
    /\ errorChan = <<"input is required">>
    /\ received = <<>>

\* one handler goroutine ran: one Handle call counted, that goroutine gone,
\* nothing else of the bus touched
OneHandlerRan ==
    \E h \in DOMAIN calls, e \in EventIds :
        /\ calls' = [calls EXCEPT ![h][e] = @ + 1]
        /\ inflight' = [inflight EXCEPT ![h][e] = @ - 1]
        /\ UNCHANGED <<handlers, listeners, pubs, cancelled, closed>>

\* listener i takes an event and starts one goroutine per registered entry,
\* whatever the handlers started earlier have done or are still doing
DispatchesToAll(i) ==
    LET u == UnmarshalEvent(Head(listeners[i].queue))
    IN  (Took(i) /\ u.ok) =>
            \A h \in DOMAIN inflight :
                inflight'[h][u.event.id] =
                    inflight[h][u.event.id] + Count(handlers[listeners[i].type], h)

\* a waiting message can be taken in every state, whatever the handlers did
ListenerNeverHeld ==
    \A i \in 1..Len(listeners) :
        (listeners[i].state = "active" /\ listeners[i].queue # <<>>)
            => ENABLED BusListenerReceive

Begins(c, op) ==
    libCalls' = libCalls + 1 /\ libPc[c] = "idle" /\ libOp'[c] = op

\* the call of c returns err at once and leaves the library and its services alone
RejectedWith(c, err) ==
    /\ libRet'[c] = err /\ libPc'[c] = "idle"
    /\ UNCHANGED <<running, server, cancelled, closed, started>>

\* Start on a running library and Stop on a stopped one return their error and
\* change nothing
LifecycleGuards ==
    [][\A c \in DOMAIN libPc :
          /\ (Begins(c, "Start") /\ running) => RejectedWith(c, ErrAlreadyRunning)
          /\ (Begins(c, "Stop") /\ ~running) => RejectedWith(c, ErrNotRunning)]_vars

\* IsRunning() is true exactly from a Start that returned nil until the next
\* Stop that returned nil
RunningBetweenStartAndStop ==
    /\ running <=> started = 1
    /\ started \in {0, 1}

\* a voice client that failed to start (its webhook server could not listen)
\* leaves the library not running
VoiceFailureStopsStart ==
    server = "failed" => (~running /\ \A c \in DOMAIN libPc : libRet[c] # "nil")

\* C22: for every sequence of Start and Stop calls made one after the other,
\* Start on a running library returns "library is already running" and changes
\* nothing, Stop on a non-running library returns "library is not running" and
\* changes nothing, IsRunning() is true exactly from a successful Start until
\* the next successful Stop, and when the voice client fails to start, Start
\* stops the event bus again, returns an error and leaves running false.
C22_SequentialLifecycle ==
    /\ LifecycleGuards
    /\ []RunningBetweenStartAndStop
    /\ []VoiceFailureStopsStart

\* C22 (its first three parts): they hold for every sequence of calls
C22_GuardsAndFlag ==
    /\ LifecycleGuards
    /\ []RunningBetweenStartAndStop

\* C22 (the case against its last part): Start has returned nil and the library
\* reports running while the webhook server never came to listen
C22_RunningWithoutServer ==
    /\ running /\ server = "failed"
    /\ libOp["c1"] = "Start" /\ libRet["c1"] = "nil" /\ libPc["c1"] = "idle"

\* the event bus can publish and its listeners can run
BusOperational == ~cancelled /\ ~closed

\* C29: whenever Library.IsRunning() is true the event bus is operational (its
\* context is not cancelled and its broker client is not closed); in particular
\* after Start, Stop, Start on one Library, Publish succeeds and the listeners of
\* earlier Subscribe calls still deliver.
C29_RunningImpliesBusOperational ==
    (running /\ \A c \in DOMAIN libPc : libPc[c] = "idle") => BusOperational

\* C29 (the case against it): Start, Stop and Start again have each returned
\* nil, the library reports running, and the bus is cancelled and closed
C29_RestartedOnDeadBus ==
    /\ running /\ cancelled /\ closed
    /\ libCalls = 3 /\ libOp["c1"] = "Start" /\ libRet["c1"] = "nil"
    /\ ~ENABLED BusPublish

\* no call is in progress
LibraryQuiet == \A c \in DOMAIN libPc : libPc[c] = "idle"

\* of the Start calls made on a stopped library at most one returns nil
AtMostOneStartSucceeds == started <= 1

\* the webhook server is started only when none is up
ServerStartedOnce ==
    [][(\E c \in DOMAIN libPc : libPc[c] = "voiceStart" /\ libPc'[c] # "voiceStart")
          => server \in {"nil", "closed", "failed"}]_vars

\* when all calls have returned the flag agrees with the services
FlagAgreesWithServices ==
    LibraryQuiet =>
        /\ running => (server # "closed" /\ BusOperational)
        /\ ~running => server \notin {"starting", "serving"}

\* C25: under concurrent calls of Library.Start and Library.Stop on one Library
\* at most one of several concurrent Start calls on a stopped library returns
\* success, the event bus and the webhook server are started at most once per
\* successful Start, and no interleaving ends with running true while the
\* services are stopped or running false while they are started.
C25_ConcurrentLifecycle ==
    /\ []AtMostOneStartSucceeds
    /\ ServerStartedOnce
    /\ []FlagAgreesWithServices

\* C25 (the case against it): two callers called Start on the stopped library
\* at the same time and both calls returned nil
C25_BothStartsSucceeded ==
    /\ libCalls = 2 /\ LibraryQuiet
    /\ \A c \in Callers : libOp[c] = "Start" /\ libRet[c] = "nil"

\* C24: accesses to the handler registry of the RedisEventBus are mutually
\* exclusive: no listener reads (or ranges over) the handler list of a type
\* while Subscribe or Unsubscribe is writing the registry, and no two
\* Subscribe/Unsubscribe calls write it at the same time.
C24_RegistryMutuallyExclusive ==
    \A a, b \in access :
        (a # b /\ a.mode = "write") => b.mode \notin {"read", "write"}

\* C24 (the case against it): a listener is ranging over the handlers of t1
\* while a Subscribe for t1 is between its read and its write of the entry
C24_DispatchDuringSubscribe ==
    \E a, b \in access :
        /\ a.op = "Subscribe" /\ a.t = "t1"
        /\ b.op = "dispatch" /\ b.t = "t1"

\* no AttachToolToAssistant call is in progress
AttachQuiet == \A c \in Callers : atPc[c] = "idle"

\* every id that was there at first or attached by a call that returned nil is
\* in model.toolIds exactly once
NoAttachLost ==
    AttachQuiet => \A id \in atOk : Count(toolIds, id) = 1

\* a PATCH is only sent for a tool id that the assistant does not have
NoPatchWhenAttached ==
    [][patches' > patches =>
          \E c \in Callers : atPc[c] = "patch" /\ atPc'[c] = "idle"
                             /\ Count(toolIds, atTool[c]) = 0]_vars

\* C30: AttachToolToAssistant is idempotent and loses no update: after any set
\* of successful calls on one assistant, sequential or concurrent, model.toolIds
\* holds every attached tool id exactly once together with all ids present
\* before, and a call for a tool id that is already attached sends no PATCH.
C30_AttachLosesNothing ==
    /\ []NoAttachLost
    /\ NoPatchWhenAttached

\* C30 (the case against it): the callers attached ta and tb at the same time,
\* both calls returned nil, and the assistant has one of the two ids only
C30_LostAttach ==
    /\ AttachQuiet /\ patches = 2
    /\ atTool["c1"] = "ta" /\ atTool["c2"] = "tb"
    /\ atRet["c1"] = "nil" /\ atRet["c2"] = "nil"
    /\ toolIds = <<"tb">>

WireFields == {"id", "type", "timestamp", "source", "data", "metadata"}

\* the round trip of an event has run
RoundTripDone == xtPc = "done" /\ xtCall.kind = "event"

\* a number that some float64 holds exactly
ExactFloat(n) == n.hi = 0 \/ n.lo % 2 = 0

\* a value as json.Unmarshal makes them: nil, bool, string, float64 and
\* map[string]interface{} of such, with valid UTF-8 in its strings
RECURSIVE Generic(_)
Generic(v) ==
    /\ v.k \in {"nil", "bool", "string", "float64", "map"}
    /\ v.k = "string" => CoerceUtf8(v.s) = v.s
    /\ \A p \in v.m : Generic(p[2])

\* every number in the value is one a float64 holds exactly
RECURSIVE ExactNumbers(_)
ExactNumbers(v) ==
    /\ v.k \in {"int", "float64"} => ExactFloat(v.n)
    /\ \A p \in v.m : ExactNumbers(p[2])

\* json.Marshal has an encoding for the event
Encodable(e) == Supported(e.data) /\ Supported(e.metadata) /\ e.timestamp.inRange

\* the decoded field is of the generic kinds, equal to the original when that
\* was generic, and of the same JSON text when its numbers fit a float64
FieldComesBack(orig, back) ==
    /\ Generic(back)
    /\ Generic(orig) => back = orig
    /\ ExactNumbers(orig) => MarshalValue(back) = MarshalValue(orig)

==============================================================================
